---- MODULE Spec2Model ----
(***************************************************************************)
(* A model of the paged storage engine "pages": one file that holds a      *)
(* recycling page (free list) and any number of entries, each a tiered     *)
(* page (anchor page + pageTable tree) over physical pages.                *)
(*                                                                         *)
(* The file is modelled as a sequence of cells.  One cell stands for one   *)
(* 8-byte word of the real file (a data byte is stored one per cell), so   *)
(* a page is pageSize cells, a marshalled pageTable is a count cell        *)
(* followed by one cell per child, and an anchor slot is two cells.        *)
(* Go objects reached through pointers (physicalPage, pageTable,           *)
(* tieredPage, Entry) live in heaps indexed by 1..Len(heap); 0 is nil.     *)
(***************************************************************************)
EXTENDS Integers, Sequences, FiniteSets, TLC

(***************************************************************************)
(* Scale of the model.  pageSize (4096 bytes) and numPageEntries (511)     *)
(* are modelled at a reduced scale so that trees of height 1 and the       *)
(* attempt to reach height 2 happen within a few pages.                    *)
(***************************************************************************)
pageSize == 6
numPageEntries == 2
entryPageEntrySize == 2
freeOff == 0
dataOff == 1 * pageSize

\* uint64 arithmetic wraps; the width is scaled to 16 bits, far above every
\* index, length and offset the model reaches.
U64Mod == 2^16
U64(x) == x % U64Mod

Min(a, b) == IF a < b THEN a ELSE b
Max(a, b) == IF a > b THEN a ELSE b

\* Go's integer division and remainder truncate toward zero.
GoDiv(a, b) == IF a >= 0 THEN a \div b ELSE -((-a) \div b)
GoMod(a, b) == a - b * GoDiv(a, b)

Zeros(n) == [i \in 1..n |-> 0]
Take(s, n) == SubSeq(s, 1, Min(n, Len(s)))
Drop(s, n) == SubSeq(s, n + 1, Len(s))
Last(s) == s[Len(s)]
Front(s) == SubSeq(s, 1, Len(s) - 1)

\* A Go map with uint64 keys: a function on its key set; a missing key reads
\* as nil (0).
EmptyMap == [k \in {} |-> 0]
MapGet(f, k) == IF k \in DOMAIN f THEN f[k] ELSE 0
MapPut(f, k, v) == (k :> v) @@ f
RECURSIVE MapOn(_, _)
MapOn(f, S) ==
    IF S = {} THEN EmptyMap
    ELSE LET k == CHOOSE x \in S : TRUE IN (k :> f[k]) @@ MapOn(f, S \ {k})
MapDel(f, k) == MapOn(f, (DOMAIN f) \ {k})
MapLen(f) == Cardinality(DOMAIN f)

(***************************************************************************)
(* encoding/binary: PutVarint zig-zags the value and writes base-128      *)
(* groups, low group first, into a zeroed 8-byte buffer; Varint reads      *)
(* groups until one without the continuation bit.  A cell holds the        *)
(* little-endian value of the 8 bytes.                                     *)
(***************************************************************************)
ZigZag(v) == IF v >= 0 THEN 2 * v ELSE 2 * (-v) - 1
UnZigZag(u) == IF u % 2 = 0 THEN u \div 2 ELSE -((u + 1) \div 2)

RECURSIVE VarintBytes(_)
VarintBytes(u) ==
    IF u < 128 THEN u ELSE (128 + (u % 128)) + 256 * VarintBytes(u \div 128)

PutVarint(v) == VarintBytes(ZigZag(v))

RECURSIVE VarintGroups(_, _)
\* [u |-> decoded unsigned value, n |-> bytes read]; n = 0 when the 8 bytes end
\* before a group without continuation bit is found.
VarintGroups(w, left) ==
    IF left = 0 THEN [u |-> 0, n |-> 0]
    ELSE LET b == w % 256 IN
         IF b < 128 THEN [u |-> b, n |-> 1]
         ELSE LET r == VarintGroups(w \div 256, left - 1) IN
              IF r.n = 0 THEN r
              ELSE [u |-> (b - 128) + 128 * r.u, n |-> r.n + 1]

Varint(w) ==
    LET r == VarintGroups(w, 8) IN
    [val |-> IF r.n = 0 THEN 0 ELSE UnZigZag(r.u), n |-> r.n]

(***************************************************************************)
(* os.File: ReadAt returns the cells that exist (a short read at the end   *)
(* of the file); WriteAt extends the file, zero-filling any hole.          *)
(***************************************************************************)
FileReadAt(f, off, n) ==
    IF off >= Len(f) THEN <<>>
    ELSE SubSeq(f, off + 1, Min(off + n, Len(f)))

\* os.File.WriteAt: a write of no bytes makes no system call and leaves the
\* file as it is; a write beyond the end fills the gap with zeros
FileWriteAt(f, data, off) ==
    LET padded == IF Len(f) < off + Len(data)
                  THEN f \o Zeros(off + Len(data) - Len(f)) ELSE f
    IN IF Len(data) = 0 THEN f
       ELSE SubSeq(padded, 1, off) \o data \o SubSeq(padded, off + Len(data) + 1, Len(padded))

\* file.WriteAt on the file of PageManager m; m.wr lists the writes that have
\* reached the file, in the order of the calls
fileWriteAt(m, data, off) ==
    IF Len(data) = 0 THEN m
    ELSE [m EXCEPT !.file = FileWriteAt(m.file, data, off),
                   !.wr = Append(@, [off |-> off, data |-> data])]

(***************************************************************************)
(* The machine: everything an operation can read or change.  Operators     *)
(* take a machine m and return [m, v, err]: the machine afterwards, the    *)
(* returned value and the returned error ("" is nil).  A Go panic ends     *)
(* the process: m.panic holds its message and every later step of the      *)
(* operation is skipped.                                                   *)
(*   file         cells of the database file                               *)
(*   pp           heap of physicalPage  [fileOff, usedSize]                *)
(*   pt           heap of pageTable     [height, parent, childTables,      *)
(*                                       childPages, pp]                   *)
(*   tp           heap of tieredPage    [root, pp, usedSize, pages,        *)
(*                                       instanceCounter]                  *)
(*   freePages    PageManager.freePages (a tieredPage, 0 is nil)           *)
(*   recyclePages PageManager.recyclePages                                 *)
(*   entryPages   PageManager.entryPages (Identifier -> tieredPage)        *)
(***************************************************************************)
Ret(m, v, err) == [m |-> m, v |-> v, err |-> err]
Panic(m, msg) == [m EXCEPT !.panic = IF m.panic = "" THEN msg ELSE m.panic]
Failed(r) == r.m.panic # "" \/ r.err # ""

\* Bind(v, F) is F(v): the value v of one step of an operation is computed
\* once and handed to the steps F that follow it.
Bind(v, F(_)) == CHOOSE x \in {F(r) : r \in {v}} : TRUE

NewPP(m, fileOff, usedSize) ==
    [m EXCEPT !.pp = Append(m.pp, [fileOff |-> fileOff, usedSize |-> usedSize])]

(***************************************************************************)
(* physicalPage                                                            *)
(***************************************************************************)
\* readAt of a buffer of blen cells; v is the data read.
readAt(m, p, blen, off) ==
    IF off >= m.pp[p].usedSize THEN Ret(m, <<>>, "EOF")
    ELSE IF off < 0 THEN Ret(m, <<>>, "Cannot read at negative offset")
    ELSE Bind(FileReadAt(m.file, m.pp[p].fileOff + off, Min(blen, m.pp[p].usedSize - off)),
              LAMBDA data :
                IF Len(data) # Min(blen, m.pp[p].usedSize - off)
                THEN Ret(Panic(m, "Sanity Check: ReadAt"), <<>>, "")
                ELSE Ret(m, data, ""))

\* writeAt that reports every offset out of range as EOF
writeAtAllEOF(m, p, b, off) ==
    IF off >= pageSize \/ off < 0 THEN Ret(m, 0, "EOF")
    ELSE LET length == IF Len(b) < pageSize - off THEN Len(b) ELSE pageSize - off
         IN Ret([m EXCEPT !.file = FileWriteAt(m.file, SubSeq(b, 1, length), m.pp[p].fileOff + off),
                          !.pp[p].usedSize = IF @ > off + length THEN @ ELSE off + length],
                length, "")

\* writeAt that writes all of b, past the end of the page
writeAtUncut(m, p, b, off) ==
    IF off >= pageSize THEN Ret(m, 0, "EOF")
    ELSE IF off < 0 THEN Ret(m, 0, "Cannot write at negative offset")
    ELSE Ret([m EXCEPT !.file = FileWriteAt(m.file, b, m.pp[p].fileOff + off),
                       !.pp[p].usedSize = Max(m.pp[p].usedSize, off + Len(b))],
             Len(b), "")

\* writeAt of the cells b; v is the number of cells written.
writeAt(m, p, b, off) ==
    IF off >= pageSize THEN Ret(m, 0, "EOF")
    ELSE IF off < 0 THEN Ret(m, 0, "Cannot write at negative offset")
    ELSE LET length == Min(Len(b), pageSize - off)
         IN Ret([fileWriteAt(m, Take(b, length), m.pp[p].fileOff + off)
                     EXCEPT !.pp[p].usedSize = Max(m.pp[p].usedSize, off + length)],
                length, "")

(***************************************************************************)
(* pageTable                                                               *)
(***************************************************************************)
RECURSIVE MarshalOffsets(_, _, _, _)
\* The offsets of children 0 .. n-1; ok is FALSE when one of them is missing
\* (the Go code dereferences a nil pointer there).
MarshalOffsets(m, t, i, n) ==
    IF i >= n THEN [ok |-> TRUE, s |-> <<>>]
    ELSE LET child == IF m.pt[t].height = 0 THEN MapGet(m.pt[t].childPages, i)
                      ELSE MapGet(m.pt[t].childTables, i)
         IN IF child = 0 THEN [ok |-> FALSE, s |-> <<>>]
            ELSE Bind(MarshalOffsets(m, t, i + 1, n), LAMBDA rest :
                   IF ~rest.ok THEN rest
                   ELSE IF m.pt[t].height = 0
                   THEN [ok |-> TRUE, s |-> <<PutVarint(m.pp[child].fileOff)>> \o rest.s]
                   ELSE [ok |-> TRUE,
                         s |-> <<PutVarint(m.pp[m.pt[child].pp].fileOff)>> \o rest.s])

Marshal(m, t) ==
    LET numEntries == IF m.pt[t].height = 0 THEN MapLen(m.pt[t].childPages)
                      ELSE MapLen(m.pt[t].childTables)
    IN Bind(MarshalOffsets(m, t, 0, numEntries), LAMBDA offsets :
         [ok |-> offsets.ok, s |-> <<numEntries>> \o offsets.s])

writeToDisk(m, t) ==
    Bind(Marshal(m, t), LAMBDA data :
      IF ~data.ok
      THEN Ret(Panic(m, "nil pointer dereference in Marshal"), 0, "")
      ELSE Bind(writeAt(m, m.pt[t].pp, data.s, 0), LAMBDA w : Ret(w.m, 0, w.err)))

maxPages(height) == numPageEntries ^ (height + 1)

tp_len(m, t) == U64(GoDiv(m.tp[t].usedSize, pageSize))

tp_maxPages(m, t) == maxPages(m.pt[m.tp[t].root].height)

(***************************************************************************)
(* recyclingPage.freePage and PageManager.allocatePage                     *)
(***************************************************************************)
RECURSIVE walkToLeaf(_, _, _)
\* The loop "for pt.height > 0" of freePage: v is the pageTable reached, err
\* is set when a child table on the way does not exist.
walkToLeaf(m, t, pageIndex) ==
    IF m.pt[t].height > 0
    THEN LET tableIndex == pageIndex \div maxPages(m.pt[t].height - 1) IN
         IF tableIndex \notin DOMAIN m.pt[t].childTables
         THEN Ret(m, 0, "table at index doesn't exist")
         ELSE walkToLeaf(m, m.pt[t].childTables[tableIndex], pageIndex \div numPageEntries)
    ELSE Ret(m, t, "")

\* delete(pt.parent.childTables, uint64(len(pt.parent.childTables)-1)) followed
\* by pt.parent.writeToDisk()
dropLastChildTable(m, parent) ==
    writeToDisk([m EXCEPT !.pt[parent].childTables =
                              MapDel(@, U64(MapLen(m.pt[parent].childTables) - 1))],
                parent)

RECURSIVE freeEmptyParents(_, _)
\* "for pt = pt.parent; pt.parent != nil && len(pt.childTables) == 0; pt = pt.parent"
\* entered with t already set to pt.parent; t = nil is dereferenced.
freeEmptyParents(m, t) ==
    IF t = 0 THEN Ret(Panic(m, "nil pointer dereference in freePage"), 0, "")
    ELSE IF m.pt[t].parent # 0 /\ MapLen(m.pt[t].childTables) = 0
    THEN Bind(dropLastChildTable(m, m.pt[t].parent), LAMBDA w :
           IF Failed(w) THEN w ELSE freeEmptyParents(w.m, m.pt[t].parent))
    ELSE Ret(m, 0, "")

\* The end of freePage: the sanity check against rp.pages and the removal of
\* the last page of rp.pages.
freePageLast(m, rp, page) ==
    IF Len(m.tp[rp].pages) = 0
    THEN Ret(Panic(m, "index out of range"), 0, "")
    ELSE IF page # Last(m.tp[rp].pages)
    THEN Ret(Panic(m, "removed page isn't the same as the last page in rp.pages"), 0, "")
    ELSE Ret([m EXCEPT !.tp[rp].pages = Front(@)], page, "")

\* The part of freePage after the leaf pageTable was found.
freePageAt(m, rp, leaf, index) ==
    LET idx == index % numPageEntries IN
    IF (idx + 1) \in DOMAIN m.pt[leaf].childPages
    THEN Ret(Panic(m, "deleting page would create a gap"), 0, "")
    ELSE IF idx \notin DOMAIN m.pt[leaf].childPages
    THEN Ret(m, 0, "page at index doesn't exist")
    ELSE
    LET page == m.pt[leaf].childPages[idx] IN
    Bind(writeToDisk([m EXCEPT !.pt[leaf].childPages = MapDel(@, idx),
                               !.tp[rp].usedSize = @ - m.pp[page].usedSize], leaf),
         LAMBDA w1 :
    IF Failed(w1) THEN w1
    ELSE
    Bind(IF w1.m.pt[leaf].parent # 0 /\ MapLen(w1.m.pt[leaf].childPages) = 0
         THEN dropLastChildTable(w1.m, w1.m.pt[leaf].parent)
         ELSE w1,
         LAMBDA w2 :
    IF Failed(w2) THEN w2
    ELSE
    Bind(freeEmptyParents(w2.m, w2.m.pt[leaf].parent), LAMBDA w3 :
    IF Failed(w3) THEN w3
    ELSE freePageLast(w3.m, rp, page))))

\* freePage removes the last page of the recycling page and returns it.
\* recyclePages is false during the call and true when it returns.
freePage(m) ==
    LET rp == m.freePages
        index == U64(tp_len(m, rp) - 1)
    IN Bind(walkToLeaf([m EXCEPT !.recyclePages = FALSE], m.tp[rp].root, index), LAMBDA w :
       Bind(IF Failed(w) THEN w ELSE freePageAt(w.m, rp, w.v, index), LAMBDA r :
         Ret([r.m EXCEPT !.recyclePages = TRUE], r.v, r.err)))

\* "fileOff, err := p.file.Seek(0, io.SeekEnd)" and the two adjustments of
\* allocatePage: the end of the file, rounded up to a page, not below dataOff
seekEndPage(f) ==
    LET end == Len(f)
        up == IF end % pageSize # 0 THEN end + (pageSize - (end % pageSize)) ELSE end
    IN IF up < dataOff THEN dataOff ELSE up

\* "newPage = &physicalPage{...}; newPage.file.WriteAt(make([]byte, pageSize), fileOff)"
\* of allocatePage: the new page is the last of the heap
zeroNewPage(m, fileOff) ==
    [fileWriteAt(m, Zeros(pageSize), fileOff)
        EXCEPT !.pp = Append(m.pp, [fileOff |-> fileOff, usedSize |-> 0])]

\* allocatePage returns a page of the recycling page, or a new zeroed page at
\* the end of the file.
allocatePage(m) ==
    IF m.recyclePages /\ m.freePages # 0 /\ tp_len(m, m.freePages) > 0
    THEN Bind(freePage(m), LAMBDA r :
           IF r.m.panic # "" THEN r
           ELSE IF r.err # "" THEN Ret(r.m, 0, "Failed to reuse free page")
           ELSE Ret([r.m EXCEPT !.pp[r.v].usedSize = 0], r.v, ""))
    ELSE Ret(zeroNewPage(m, seekEndPage(m.file)), Len(m.pp) + 1, "")

\* newPageTable allocates the backing page of a new, empty pageTable.
newPageTable(m, height, parent) ==
    Bind(allocatePage(m), LAMBDA a :
      IF Failed(a)
      THEN Ret(a.m, 0, IF a.err = "" THEN "" ELSE "failed to allocate page for new pageTable")
      ELSE Ret([a.m EXCEPT !.pt = Append(a.m.pt,
                    [height |-> height, parent |-> parent,
                     childTables |-> EmptyMap, childPages |-> EmptyMap, pp |-> a.v])],
               Len(a.m.pt) + 1, ""))

\* extendPageTableTree puts a new root above root; v is the new root.
extendPageTableTree(m, root) ==
    IF m.pt[root].parent # 0
    THEN Ret(Panic(m, "Sanity check failed. Pt is not the root node"), 0, "")
    ELSE Bind(newPageTable(m, m.pt[root].height + 1, 0), LAMBDA n :
           IF Failed(n) THEN n
           ELSE Ret([n.m EXCEPT !.pt[n.v].childTables = MapPut(@, 0, root),
                                !.pt[root].parent = n.v],
                    n.v, ""))

(***************************************************************************)
(* tieredPage: inserting pages                                             *)
(***************************************************************************)
RECURSIVE extendWhileFull(_, _, _)
\* "for maxPages := tp.maxPages(); index >= maxPages; ..." of insertPage
extendWhileFull(m, t, index) ==
    IF index >= tp_maxPages(m, t)
    THEN Bind(extendPageTableTree(m, m.tp[t].root), LAMBDA e :
           IF Failed(e)
           THEN Ret(e.m, 0, IF e.err = "" THEN "" ELSE "Failed to extend the pageTable tree")
           ELSE extendWhileFull([e.m EXCEPT !.tp[t].root = e.v], t, index))
    ELSE Ret(m, 0, "")

RECURSIVE insertWalk(_, _, _)
\* "for pt.height > 0" of insertPage: v is the pageTable the page goes into;
\* missing child tables are created on the way.
insertWalk(m, pt, pageIndex) ==
    IF m.pt[pt].height > 0
    THEN LET tableIndex == pageIndex \div maxPages(m.pt[pt].height - 1)
             next == pageIndex \div numPageEntries
         IN IF tableIndex \notin DOMAIN m.pt[pt].childTables
            THEN Bind(newPageTable(m, m.pt[pt].height - 1, pt), LAMBDA n :
                   IF Failed(n) THEN n
                   ELSE Bind(writeToDisk([n.m EXCEPT !.pt[pt].childTables =
                                                         MapPut(@, tableIndex, n.v)], pt),
                             LAMBDA w : IF Failed(w) THEN w ELSE insertWalk(w.m, n.v, next)))
            ELSE insertWalk(m, m.pt[pt].childTables[tableIndex], next)
    ELSE Ret(m, pt, "")

\* The end of insertPage: the sanity checks of the pageTable leaf and the
\* insertion of page p.
insertInto(m, leaf, index, p) ==
    LET kids == m.pt[leaf].childPages IN
    IF MapLen(kids) = numPageEntries
    THEN Ret(Panic(m, "We shouldn't insert if childPages is already full"), 0, "")
    ELSE IF MapLen(kids) > 0 /\ MapGet(kids, U64((index % numPageEntries) - 1)) = 0
    THEN Ret(Panic(m, "Inserting shouldn't create a gap"), 0, "")
    ELSE writeToDisk([m EXCEPT !.pt[leaf].childPages =
                                   MapPut(@, index % numPageEntries, p)], leaf)

\* insertPage inserts page p at index into the tree of tieredPage t.
insertPage(m, t, index, p) ==
    Bind(extendWhileFull(m, t, index), LAMBDA e :
      IF Failed(e) THEN e
      ELSE Bind(insertWalk(e.m, e.m.tp[t].root, index), LAMBDA w :
             IF Failed(w) THEN w ELSE insertInto(w.m, w.v, index, p)))

(***************************************************************************)
(* The anchor page: slot index holds (usedBytes, pageOff)                  *)
(***************************************************************************)
writeTieredPageEntry(m, p, index, usedBytes, pageOff) ==
    Bind(writeAt(m, p, <<PutVarint(usedBytes), PutVarint(pageOff)>>,
                 index * entryPageEntrySize),
         LAMBDA w : Ret(w.m, 0, w.err))

\* The two varints of a slot; v is [usedBytes, pageOff].
unmarshalEntry(m, u, o) ==
    IF u.val = 0 /\ u.n <= 0
    THEN Ret(m, [usedBytes |-> 0, pageOff |-> 0], "Failed to unmarshal usedBytes")
    ELSE IF o.val = 0 /\ o.n <= 0
    THEN Ret(m, [usedBytes |-> u.val, pageOff |-> 0], "Failed to unmarshal entryData")
    ELSE Ret(m, [usedBytes |-> u.val, pageOff |-> o.val], "")

\* v is [usedBytes, pageOff]
readEntryPageEntry(m, p, index) ==
    Bind(readAt(m, p, entryPageEntrySize, index * entryPageEntrySize), LAMBDA r :
      IF Failed(r) THEN Ret(r.m, [usedBytes |-> 0, pageOff |-> 0], r.err)
      ELSE Bind(r.v \o Zeros(entryPageEntrySize - Len(r.v)), LAMBDA entryData :
             unmarshalEntry(m, Varint(entryData[1]), Varint(entryData[2]))))

\* The slot of the current root: (usedSize, offset of the root's page)
writeRootEntry(m, t) ==
    writeTieredPageEntry(m, m.tp[t].pp, m.pt[m.tp[t].root].height,
                         m.tp[t].usedSize, m.pp[m.pt[m.tp[t].root].pp].fileOff)

\* The slot of the old root written with the used size of the entry instead
\* of the maximum of its height
writeOldRootUsedSize(m, t, root) ==
    IF root # m.tp[t].root
    THEN writeTieredPageEntry(m, m.tp[t].pp, m.pt[root].height,
                              m.tp[t].usedSize, m.pp[m.pt[root].pp].fileOff)
    ELSE Ret(m, 0, "")

\* After insertPage: if the root changed, the old root's slot is written with
\* the maximum of its height.
writeOldRoot(m, t, root) ==
    IF root # m.tp[t].root
    THEN writeTieredPageEntry(m, m.tp[t].pp, m.pt[root].height,
                              maxPages(m.pt[root].height) * pageSize,
                              m.pp[m.pt[root].pp].fileOff)
    ELSE Ret(m, 0, "")

RECURSIVE ep_insertAll(_, _, _, _)
\* The loop "for _, page := range pages" of entryPage.addPages
ep_insertAll(m, t, pages, index) ==
    IF pages = <<>> THEN Ret(m, 0, "")
    ELSE Bind(insertPage(m, t, index, Head(pages)), LAMBDA i :
           IF Failed(i) THEN Ret(i.m, 0, IF i.err = "" THEN "" ELSE "failed to insert page")
           ELSE Bind(writeOldRoot(i.m, t, m.tp[t].root), LAMBDA w :
                  IF Failed(w) THEN w
                  ELSE ep_insertAll(w.m, t, Tail(pages), U64(index + 1))))

\* entryPage.addPages
ep_addPages(m, t, pages, addedBytes) ==
    IF addedBytes = 0 THEN Ret(m, 0, "")
    ELSE Bind(ep_insertAll(m, t, pages, tp_len(m, t)), LAMBDA a :
           IF Failed(a) THEN a
           ELSE writeRootEntry([a.m EXCEPT !.tp[t].usedSize = @ + addedBytes], t))

RECURSIVE rp_insertAllKeepUsed(_, _, _, _)
\* The loop of addPages without "page.usedSize = pageSize": a released page
\* keeps the used size it had in the structure that owned it
rp_insertAllKeepUsed(m, t, pages, index) ==
    IF pages = <<>> THEN Ret(m, 0, "")
    ELSE Bind(insertPage(m, t, index, Head(pages)), LAMBDA i :
           IF Failed(i) THEN Ret(i.m, 0, IF i.err = "" THEN "" ELSE "failed to insert page")
           ELSE Bind(writeOldRoot(i.m, t, m.tp[t].root), LAMBDA w :
                  IF Failed(w) THEN w
                  ELSE rp_insertAllKeepUsed(w.m, t, Tail(pages), U64(index + 1))))

RECURSIVE rp_insertAll(_, _, _, _)
\* The loop of recyclingPage.addPages: free pages are treated as full.
rp_insertAll(m, t, pages, index) ==
    IF pages = <<>> THEN Ret(m, 0, "")
    ELSE Bind(insertPage([m EXCEPT !.pp[Head(pages)].usedSize = pageSize],
                         t, index, Head(pages)),
              LAMBDA i :
           IF Failed(i) THEN Ret(i.m, 0, IF i.err = "" THEN "" ELSE "failed to insert page")
           ELSE Bind(writeOldRoot(i.m, t, m.tp[t].root), LAMBDA w :
                  IF Failed(w) THEN w
                  ELSE rp_insertAll(w.m, t, Tail(pages), U64(index + 1))))

\* recyclingPage.addPages; recyclePages is false during the call and true
\* when it returns.
rp_addPages(m, pages) ==
    Bind(rp_insertAll([m EXCEPT !.recyclePages = FALSE], m.freePages, pages,
                      tp_len(m, m.freePages)),
         LAMBDA a :
    Bind(IF Failed(a) THEN a
         ELSE writeRootEntry([a.m EXCEPT !.tp[m.freePages].pages = @ \o pages,
                                         !.tp[m.freePages].usedSize = @ + Len(pages) * pageSize],
                             m.freePages),
         LAMBDA r : Ret([r.m EXCEPT !.recyclePages = TRUE], 0, r.err)))

(***************************************************************************)
(* tieredPage: truncation and defragmentation                              *)
(***************************************************************************)
RECURSIVE defragLoop(_, _, _)
\* One round of the loop of defrag: the child becomes the root, the slot of the
\* old root is zeroed and the old root's page is collected.
defragStep(m, t, root, child, pagesToFree) ==
    Bind(writeTieredPageEntry(m, m.tp[t].pp, m.pt[child].height,
                              m.tp[t].usedSize, m.pp[m.pt[child].pp].fileOff),
         LAMBDA w1 :
      IF Failed(w1) THEN Ret(w1.m, pagesToFree, w1.err)
      ELSE Bind(writeTieredPageEntry(w1.m, m.tp[t].pp, m.pt[root].height, 0, 0), LAMBDA w2 :
             IF Failed(w2) THEN Ret(w2.m, pagesToFree, w2.err)
             ELSE defragLoop([w2.m EXCEPT !.tp[t].root = child], t,
                             Append(pagesToFree, m.pt[root].pp))))

\* "for tp.root.height > 0 && len(tp.root.childTables) == 1"; v is pagesToFree
defragLoop(m, t, pagesToFree) ==
    IF m.pt[m.tp[t].root].height > 0 /\ MapLen(m.pt[m.tp[t].root].childTables) = 1
    THEN IF MapGet(m.pt[m.tp[t].root].childTables, 0) = 0
         THEN Ret(Panic(m, "nil pointer dereference in defrag"), pagesToFree, "")
         ELSE defragStep(m, t, m.tp[t].root, MapGet(m.pt[m.tp[t].root].childTables, 0),
                         pagesToFree)
    ELSE Ret(m, pagesToFree, "")

\* defrag writes the current usedSize to the anchor and reduces the height of
\* the tree while the root has a single child.
defrag(m, t) ==
    Bind(writeRootEntry(m, t), LAMBDA w :
      IF Failed(w) THEN w
      ELSE Bind(defragLoop(w.m, t, <<>>), LAMBDA d :
             IF Failed(d) THEN Ret(d.m, 0, d.err)
             ELSE rp_addPages(d.m, d.v)))

RECURSIVE truncPages(_, _, _, _, _)
\* The removal of the last page of pt in recursiveTruncate: the page leaves
\* pt.childPages and tp.pages and is given to the recycling page.
truncRemove(m, t, pt, size, i, page) ==
    IF m.pp[Last(m.tp[t].pages)].fileOff # m.pp[page].fileOff
    THEN Ret(Panic([m EXCEPT !.pt[pt].childPages = MapDel(@, i), !.tp[t].pages = Front(@)],
                   "removed pages weren't the same"), FALSE, "")
    ELSE Bind(rp_addPages([m EXCEPT !.pt[pt].childPages = MapDel(@, i),
                                    !.tp[t].pages = Front(@)], <<page>>),
              LAMBDA a :
           IF Failed(a) THEN Ret(a.m, FALSE, "")
           ELSE Bind([a.m EXCEPT !.tp[t].usedSize = @ - a.m.pp[page].usedSize], LAMBDA m2 :
                  IF MapLen(m2.pt[pt].childPages) = 0 THEN Ret(m2, TRUE, "")
                  ELSE truncPages(m2, t, pt, size, U64(i - 1))))

\* "for i := uint64(len(pt.childPages)) - 1; i >= 0; i--" of recursiveTruncate:
\* the condition is always true of an unsigned i, so the loop ends only by
\* a return or by dereferencing the missing page at a wrapped index.
truncPages(m, t, pt, size, i) ==
    IF m.tp[t].usedSize <= size THEN Ret(m, FALSE, "")
    ELSE
    LET page == MapGet(m.pt[pt].childPages, i)
        remainingTruncation == m.tp[t].usedSize - size
    IN
    IF page = 0 THEN Ret(Panic(m, "nil pointer dereference in recursiveTruncate"), FALSE, "")
    ELSE IF remainingTruncation < m.pp[page].usedSize
    THEN truncPages([m EXCEPT !.pp[page].usedSize = @ - remainingTruncation,
                              !.tp[t].usedSize = @ - remainingTruncation],
                    t, pt, size, U64(i - 1))
    ELSE IF Len(m.tp[t].pages) = 0
    THEN Ret(Panic(m, "index out of range"), FALSE, "")
    ELSE truncRemove(m, t, pt, size, i, page)

RECURSIVE recursiveTruncate(_, _, _, _)
RECURSIVE truncTables(_, _, _, _, _)
\* The removal of the emptied child table i of pt in recursiveTruncate.
truncDrop(m, t, pt, size, i, child) ==
    Bind(rp_addPages([m EXCEPT !.pt[pt].childTables = MapDel(@, i)], <<m.pt[child].pp>>),
         LAMBDA a :
      IF Failed(a) THEN Ret(a.m, FALSE, a.err)
      ELSE Bind(writeToDisk(a.m, pt), LAMBDA w :
             IF Failed(w) THEN Ret(w.m, FALSE, w.err)
             ELSE IF MapLen(w.m.pt[pt].childTables) = 0 THEN Ret(w.m, TRUE, "")
             ELSE truncTables(w.m, t, pt, size, U64(i - 1))))

\* "for i := uint64(len(pt.childTables)) - 1; i >= 0; i--" of recursiveTruncate
truncTables(m, t, pt, size, i) ==
    IF m.tp[t].usedSize <= size THEN Ret(m, FALSE, "")
    ELSE IF MapGet(m.pt[pt].childTables, i) = 0
    THEN Ret(Panic(m, "nil pointer dereference in recursiveTruncate"), FALSE, "")
    ELSE Bind(recursiveTruncate(m, t, MapGet(m.pt[pt].childTables, i), size), LAMBDA r :
           IF Failed(r) THEN Ret(r.m, FALSE, r.err)
           ELSE IF r.v THEN truncDrop(r.m, t, pt, size, i, MapGet(m.pt[pt].childTables, i))
           ELSE truncTables(r.m, t, pt, size, U64(i - 1)))

\* recursiveTruncate walks the tree from the right and removes pages until
\* usedSize <= size; v tells whether pt became empty.
recursiveTruncate(m, t, pt, size) ==
    IF m.pt[pt].height > 0
    THEN truncTables(m, t, pt, size, U64(MapLen(m.pt[pt].childTables) - 1))
    ELSE IF m.pt[pt].height = 0
    THEN truncPages(m, t, pt, size, U64(MapLen(m.pt[pt].childPages) - 1))
    ELSE Ret(Panic(m, "sanity check failed. height can't be a negative value."), FALSE, "")

(***************************************************************************)
(* tieredPage: recovery from disk                                          *)
(***************************************************************************)
RECURSIVE unmarshalEntries(_, _, _)
\* v is the sequence of offsets read so far
unmarshalEntries(data, i, numEntries) ==
    IF i >= numEntries THEN [v |-> <<>>, err |-> ""]
    ELSE Bind(Varint(data[i + 2]), LAMBDA o :
           IF o.val = 0 /\ o.n <= 0 THEN [v |-> <<>>, err |-> "Failed to unmarshal offset"]
           ELSE Bind(unmarshalEntries(data, i + 1, numEntries), LAMBDA rest :
                  [v |-> <<o.val>> \o rest.v, err |-> rest.err]))

\* unmarshalPageTable of the cells of one page; panic is set by the sanity checks
unmarshalPageTable(data) ==
    IF Len(data) < 1 THEN [v |-> <<>>, err |-> "", panic |-> "input data is too shot"]
    ELSE IF data[1] > numPageEntries
    THEN [v |-> <<>>, err |-> "", panic |-> "Sanity check failed. numEntries > numPageEntries"]
    ELSE IF Len(data) - 1 < data[1]
    THEN [v |-> <<>>, err |-> "", panic |-> "Sanity check failed. data too short"]
    ELSE Bind(unmarshalEntries(data, 0, data[1]), LAMBDA u :
           [v |-> IF u.err = "" THEN u.v ELSE <<>>, err |-> u.err, panic |-> ""])

readPageTable(m, p) ==
    Bind(readAt(m, p, pageSize, 0), LAMBDA r :
      IF Failed(r) THEN Ret(r.m, <<>>, r.err)
      ELSE Bind(unmarshalPageTable(r.v \o Zeros(pageSize - Len(r.v))), LAMBDA u :
             IF u.panic # "" THEN Ret(Panic(m, u.panic), <<>>, "")
             ELSE Ret(m, u.v, u.err)))

\* A pageTable without children
EmptyTable(height, parent, p) ==
    [height |-> height, parent |-> parent,
     childTables |-> EmptyMap, childPages |-> EmptyMap, pp |-> p]

RECURSIVE recursiveRecovery(_, _, _, _)
RECURSIVE recoverChildren(_, _, _, _, _, _)
\* A child of parent that is a pageTable: it is recovered and then put into
\* parent.childTables at the key uint64(len(parent.childTables)-1).
recoverTable(m, parent, height, entries, pages, remainingBytes) ==
    Bind(recursiveRecovery(
             [m EXCEPT !.pp = Append(@, [fileOff |-> Head(entries), usedSize |-> pageSize]),
                       !.pt = Append(@, EmptyTable(height, parent, Len(m.pp) + 1))],
             Len(m.pt) + 1, height - 1, remainingBytes),
         LAMBDA r :
      IF Failed(r) THEN Ret(r.m, [pages |-> <<>>, remainingBytes |-> remainingBytes], r.err)
      ELSE recoverChildren(
               [r.m EXCEPT !.pt[parent].childTables =
                    MapPut(@, U64(MapLen(r.m.pt[parent].childTables) - 1), Len(m.pt) + 1)],
               parent, height, Tail(entries), pages \o r.v.pages, r.v.remainingBytes))

\* A child of parent that is a page: it takes what is left of remainingBytes,
\* at most pageSize, and is put into parent.childPages at the key
\* uint64(len(parent.childPages)-1).
recoverPage(m, parent, height, entries, pages, remainingBytes) ==
    recoverChildren(
        [m EXCEPT !.pp = Append(@, [fileOff |-> Head(entries),
                                    usedSize |-> IF remainingBytes > pageSize THEN pageSize
                                                 ELSE remainingBytes]),
                  !.pt[parent].childPages =
                      MapPut(@, U64(MapLen(m.pt[parent].childPages) - 1), Len(m.pp) + 1)],
        parent, height, Tail(entries), Append(pages, Len(m.pp) + 1),
        IF remainingBytes > pageSize THEN remainingBytes - pageSize ELSE 0)

\* The loop "for _, offset := range entries" of recursiveRecovery.
\* v is [pages, remainingBytes].
recoverChildren(m, parent, height, entries, pages, remainingBytes) ==
    IF entries = <<>> THEN Ret(m, [pages |-> pages, remainingBytes |-> remainingBytes], "")
    ELSE IF height > 0
    THEN recoverTable(m, parent, height, entries, pages, remainingBytes)
    ELSE IF height = 0
    THEN recoverPage(m, parent, height, entries, pages, remainingBytes)
    ELSE Ret(Panic(m, "Sanity check failed. Height cannot be a negative value"),
             [pages |-> <<>>, remainingBytes |-> remainingBytes], "")

\* recursiveRecovery loads the children of parent from disk.
recursiveRecovery(m, parent, height, remainingBytes) ==
    Bind(readPageTable(m, m.pt[parent].pp), LAMBDA e :
      IF Failed(e) THEN Ret(e.m, [pages |-> <<>>, remainingBytes |-> remainingBytes], e.err)
      ELSE recoverChildren(e.m, parent, height, e.v, <<>>, remainingBytes))

\* recoverTree rebuilds the tree of tieredPage t from the pageTable at rootOff.
recoverTree(m, t, rootOff, height) ==
    Bind(recursiveRecovery(
             [m EXCEPT !.pp = Append(@, [fileOff |-> rootOff, usedSize |-> pageSize]),
                       !.pt = Append(@, EmptyTable(height, 0, Len(m.pp) + 1))],
             Len(m.pt) + 1, height, m.tp[t].usedSize),
         LAMBDA r :
      IF r.m.panic # "" THEN Ret(r.m, 0, "")
      ELSE IF r.err # "" THEN Ret([r.m EXCEPT !.tp[t].pages = <<>>], 0, r.err)
      ELSE Ret([r.m EXCEPT !.tp[t].pages = r.v.pages, !.tp[t].root = Len(m.pt) + 1], 0, ""))

(***************************************************************************)
(* Entry: the cursor is passed in and returned, as the Go helpers take     *)
(* pointers to it.  Results are [m, n, err, data, cp, co].                 *)
(***************************************************************************)
\* seek without its first check: a negative position is not refused.
seekUnchecked(m, t, offset, cp, co) ==
    IF GoDiv(cp * pageSize + co + offset, pageSize) >= Len(m.tp[t].pages)
    THEN [err |-> "", cp |-> Len(m.tp[t].pages), co |-> 0]
    ELSE [err |-> "", cp |-> GoDiv(cp * pageSize + co + offset, pageSize),
          co |-> GoMod(cp * pageSize + co + offset, pageSize)]

\* seek moves the cursor (cp, co) by offset; a position at or past the last
\* page becomes (len(pages), 0).
seek(m, t, offset, cp, co) ==
    IF cp * pageSize + co + offset < 0
    THEN [err |-> "Cannot set cursor to negative position", cp |-> cp, co |-> co]
    ELSE IF GoDiv(cp * pageSize + co + offset, pageSize) >= Len(m.tp[t].pages)
    THEN [err |-> "", cp |-> Len(m.tp[t].pages), co |-> 0]
    ELSE [err |-> "", cp |-> GoDiv(cp * pageSize + co + offset, pageSize),
          co |-> GoMod(cp * pageSize + co + offset, pageSize)]

ERes(m, n, err, data, cp, co) ==
    [m |-> m, n |-> n, err |-> err, data |-> data, cp |-> cp, co |-> co]

RECURSIVE readLoop(_, _, _, _, _, _, _)
\* "for bytesToRead > 0" of read; out is what was copied into p so far (its
\* length is copyDest).  Every readAt is given the whole buffer readData of
\* len(p) bytes; copying its result beyond the end of p is a slice panic.
readLoop(m, t, plen, bytesToRead, out, cp, co) ==
    IF bytesToRead > 0 /\ cp < Len(m.tp[t].pages)
    THEN Bind(readAt(m, m.tp[t].pages[cp + 1], plen, co), LAMBDA r :
           IF r.m.panic # "" THEN ERes(r.m, 0, "", out, cp, co)
           ELSE IF r.err # "" THEN ERes(m, 0, r.err, out, cp, co)
           ELSE Bind(seek(m, t, Len(r.v), cp, co), LAMBDA s :
                  IF s.err # "" THEN ERes(m, 0, s.err, out, cp, co)
                  ELSE IF Len(out) + Len(r.v) > plen
                  THEN ERes(Panic(m, "slice bounds out of range"), 0, "", out, s.cp, s.co)
                  ELSE readLoop(m, t, plen, bytesToRead - Len(r.v), out \o r.v, s.cp, s.co)))
    ELSE IF Len(out) = 0 THEN ERes(m, 0, "EOF", out, cp, co)
    ELSE ERes(m, Len(out), "", out, cp, co)

\* read of a buffer of plen bytes at the cursor (cp, co)
read(m, t, plen, cp, co) ==
    IF Len(m.tp[t].pages) = 0 THEN ERes(m, 0, "EOF", <<>>, cp, co)
    ELSE readLoop(m, t, plen, plen, <<>>, cp, co)

\* ReadAt reads from a specific offset with a cursor of its own; (cp, co) is
\* the cursor of the Entry, which the result carries as the call leaves it.
ReadAt(m, t, plen, off, cp, co) ==
    Bind(seek(m, t, off, 0, 0), LAMBDA s :
      IF s.err # "" THEN ERes(m, 0, s.err, <<>>, cp, co)
      ELSE Bind(read(m, t, plen, s.cp, s.co), LAMBDA r :
             ERes(r.m, r.n, r.err, r.data, cp, co)))

managedAllocatePage(m) == allocatePage(m)

RECURSIVE writeLoop(_, _, _, _, _, _, _)
\* One round of the loop of write on an existing page: part of p is written
\* to the page and the cursor moves behind it.
writePage(m, t, p, byteIncrease, addedPages, cp, co, page) ==
    Bind(writeAt(m, page, p, co), LAMBDA w :
      IF w.err # "" THEN ERes(w.m, 0, w.err, <<>>, cp, co)
      ELSE Bind(seek(w.m, t, w.v, cp, co), LAMBDA s :
             IF s.err # "" THEN ERes(w.m, 0, s.err, <<>>, cp, co)
             ELSE writeLoop(w.m, t, Drop(p, w.v),
                            byteIncrease + (w.m.pp[page].usedSize - m.pp[page].usedSize),
                            addedPages, s.cp, s.co)))

\* "for bytesToWrite > 0" of write; p is the data still to write.
\* v is [byteIncrease, addedPages].
writeLoop(m, t, p, byteIncrease, addedPages, cp, co) ==
    IF Len(p) > 0
    THEN IF cp >= Len(m.tp[t].pages)
         THEN Bind(managedAllocatePage(m), LAMBDA a :
                IF Failed(a) THEN ERes(a.m, 0, a.err, <<>>, cp, co)
                ELSE writeLoop([a.m EXCEPT !.tp[t].pages = Append(@, a.v)], t, p,
                               byteIncrease, Append(addedPages, a.v), cp, co))
         ELSE writePage(m, t, p, byteIncrease, addedPages, cp, co, m.tp[t].pages[cp + 1])
    ELSE ERes(m, 0, "", [byteIncrease |-> byteIncrease, addedPages |-> addedPages], cp, co)

\* write of the bytes p at the cursor (cp, co)
write(m, t, p, cp, co) ==
    Bind(writeLoop(m, t, p, 0, <<>>, cp, co), LAMBDA l :
      IF l.m.panic # "" \/ l.err # "" THEN ERes(l.m, 0, l.err, <<>>, l.cp, l.co)
      ELSE Bind(ep_addPages(l.m, t, l.data.addedPages, l.data.byteIncrease), LAMBDA a :
             IF a.m.panic # "" THEN ERes(a.m, 0, "", <<>>, l.cp, l.co)
             ELSE IF a.err # ""
             THEN ERes(a.m, 0, "failed to add pages to entryPage", <<>>, l.cp, l.co)
             ELSE ERes(a.m, Len(p), "", <<>>, l.cp, l.co)))

\* WriteAt handing the cursor of the Entry to seek and write instead of a
\* cursor of its own.
WriteAtOnEntryCursor(m, t, p, off, cp, co) ==
    Bind(seek(m, t, off, cp, co), LAMBDA s :
      IF s.err # "" THEN ERes(m, 0, s.err, <<>>, s.cp, s.co)
      ELSE write(m, t, p, s.cp, s.co))

\* WriteAt writes to a specific offset with a cursor of its own; (cp, co) is
\* the cursor of the Entry, which the result carries as the call leaves it.
WriteAt(m, t, p, off, cp, co) ==
    Bind(seek(m, t, off, 0, 0), LAMBDA s :
      IF s.err # "" THEN ERes(m, 0, s.err, <<>>, cp, co)
      ELSE Bind(write(m, t, p, s.cp, s.co), LAMBDA r :
             ERes(r.m, r.n, r.err, <<>>, cp, co)))

\* Seek taking the end of the entry to be its usedSize instead of the end of
\* its last page.
SeekEndAtUsedSize(m, t, offset, whence, cp, co) ==
    Bind(seek(m, t, offset + (IF whence = 2 THEN m.tp[t].usedSize ELSE 0),
              IF whence = 1 THEN cp ELSE 0,
              IF whence = 1 THEN co ELSE 0),
         LAMBDA s :
      IF s.err # "" THEN ERes(m, 0, s.err, <<>>, cp, co)
      ELSE ERes(m, s.cp * pageSize + s.co, "", <<>>, s.cp, s.co))

\* Seek: whence 0 is io.SeekStart, 1 io.SeekCurrent, 2 io.SeekEnd; n is the
\* returned position.
Seek(m, t, offset, whence, cp, co) ==
    Bind(seek(m, t, offset,
              IF whence = 1 THEN cp ELSE IF whence = 2 THEN Len(m.tp[t].pages) ELSE 0,
              IF whence = 1 THEN co ELSE 0),
         LAMBDA s :
      IF s.err # "" THEN ERes(m, 0, s.err, <<>>, cp, co)
      ELSE ERes(m, s.cp * pageSize + s.co, "", <<>>, s.cp, s.co))

\* Truncate shortens the entry to size bytes: the tree is truncated and then
\* defragmented.
Truncate(m, t, size) ==
    Bind(recursiveTruncate(m, t, m.tp[t].root, size), LAMBDA r :
      IF Failed(r) THEN Ret(r.m, 0, r.err)
      ELSE defrag(r.m, t))

\* Close that decrements the instance counter and leaves the map alone
EntryCloseKeepsEntry(m, t) ==
    [m EXCEPT !.tp[t].instanceCounter = U64(@ - 1)]

\* Entry.Close decrements the instance counter (a uint64) and removes the
\* entryPage from the map when it reaches 0.
EntryClose(m, t) ==
    IF U64(m.tp[t].instanceCounter - 1) = 0
    THEN [m EXCEPT !.tp[t].instanceCounter = 0,
                   !.entryPages = MapDel(@, m.pp[m.tp[t].pp].fileOff)]
    ELSE [m EXCEPT !.tp[t].instanceCounter = U64(@ - 1)]

(***************************************************************************)
(* PageManager                                                             *)
(***************************************************************************)
NewTP(m, root, p, usedSize) ==
    [m EXCEPT !.tp = Append(m.tp, [root |-> root, pp |-> p, usedSize |-> usedSize,
                                   pages |-> <<>>, instanceCounter |-> 0])]

\* The end of Create: the entryPage of anchor page a and pageTable root is
\* built, its first slot written and the entry registered.
createEntry(m, a, root) ==
    Bind(writeTieredPageEntry(NewTP(m, root, a, 0), a, 0, 0, m.pp[a].fileOff), LAMBDA w :
      IF Failed(w) THEN Ret(w.m, [ep |-> 0, id |-> 0], w.err)
      ELSE Ret([w.m EXCEPT !.entryPages = MapPut(@, w.m.pp[a].fileOff, Len(w.m.tp)),
                           !.tp[Len(w.m.tp)].instanceCounter = U64(@ + 1)],
               [ep |-> Len(w.m.tp), id |-> w.m.pp[a].fileOff], ""))

\* Create allocates the anchor page and the root of a new entry and registers
\* it; v is [ep, id].
Create(m) ==
    Bind(allocatePage(m), LAMBDA a :
      IF Failed(a)
      THEN Ret(a.m, [ep |-> 0, id |-> 0],
               IF a.err = "" THEN "" ELSE "failed to allocate page for new entryPage")
      ELSE Bind(newPageTable(a.m, 0, 0), LAMBDA root :
             IF Failed(root)
             THEN Ret(root.m, [ep |-> 0, id |-> 0],
                      IF root.err = "" THEN "" ELSE "Couldn't create new pageTable")
             ELSE createEntry(root.m, a.v, root.v)))

RECURSIVE scanEntries(_, _, _)
\* "for i := 0; i < pageSize/tieredPageEntrySize; i++" of Open and of
\* loadFreePagesFromDisk; v is [usedSize, rootOff, height].
scanEntries(m, p, i) ==
    Bind(readEntryPageEntry(m, p, i), LAMBDA e :
      IF Failed(e)
      THEN Ret(e.m, [usedSize |-> e.v.usedBytes, rootOff |-> e.v.pageOff, height |-> i],
               IF e.err = "" THEN "" ELSE "Failed to read entry")
      ELSE IF e.v.usedBytes < maxPages(i) * pageSize
      THEN Ret(m, [usedSize |-> e.v.usedBytes, rootOff |-> e.v.pageOff, height |-> i], "")
      ELSE IF i + 1 < pageSize \div entryPageEntrySize THEN scanEntries(m, p, i + 1)
      ELSE Ret(m, [usedSize |-> e.v.usedBytes, rootOff |-> e.v.pageOff, height |-> i], ""))

\* The tieredPage of the anchor page at fileOff off is read from disk: its
\* slots are scanned and its tree recovered; v is the tieredPage.
loadTieredPage(m, off) ==
    Bind(scanEntries(NewPP(m, off, pageSize), Len(m.pp) + 1, 0), LAMBDA s :
      IF Failed(s) THEN Ret(s.m, 0, s.err)
      ELSE Bind(recoverTree(NewTP(s.m, 0, Len(m.pp) + 1, s.v.usedSize), Len(s.m.tp) + 1,
                            s.v.rootOff, s.v.height),
                LAMBDA r :
             IF Failed(r) THEN Ret(r.m, 0, IF r.err = "" THEN "" ELSE "Failed to recover tree")
             ELSE Ret(r.m, Len(s.m.tp) + 1, "")))

\* Open returns the registered entryPage of id, or recovers it from disk;
\* v is the entryPage.
Open(m, id) ==
    IF id \in DOMAIN m.entryPages
    THEN Ret([m EXCEPT !.tp[m.entryPages[id]].instanceCounter = U64(@ + 1)],
             m.entryPages[id], "")
    ELSE Bind(loadTieredPage(m, id), LAMBDA r :
           IF Failed(r) THEN r
           ELSE Ret([r.m EXCEPT !.entryPages = MapPut(@, id, r.v),
                                !.tp[r.v].instanceCounter = U64(@ + 1)],
                    r.v, ""))

\* loadFreePagesFromDisk recovers the recycling page from the anchor at freeOff
loadFreePagesFromDisk(m) ==
    Bind(loadTieredPage(m, freeOff), LAMBDA r :
      IF Failed(r) THEN Ret(r.m, 0, r.err)
      ELSE Ret([r.m EXCEPT !.freePages = r.v], 0, ""))

\* The PageManager object New starts from, on a file with the cells f
EmptyManager(f) ==
    [file |-> f, pp |-> <<>>, pt |-> <<>>, tp |-> <<>>, freePages |-> 0,
     recyclePages |-> TRUE, entryPages |-> EmptyMap, panic |-> "", wr |-> <<>>]

\* The end of New: os.Create truncates the file and a new recycling page with
\* an empty root is set up.
newRecyclingPage(m) ==
    Bind(newPageTable([m EXCEPT !.file = <<>>], 0, 0), LAMBDA root :
      IF Failed(root)
      THEN Ret(root.m, 0, IF root.err = "" THEN ""
                          ELSE "Failed to create pageTable for recycling page")
      ELSE Ret([NewTP(NewPP(root.m, freeOff, pageSize), root.v, Len(root.m.pp) + 1, 0)
                  EXCEPT !.freePages = Len(root.m.tp) + 1], 0, ""))

\* New on a path whose file holds the cells f (exists tells whether there is
\* a file): the free pages of an existing file are loaded, then os.Create
\* truncates the file and a new recycling page is set up.
New(f, exists) ==
    Bind(IF exists THEN loadFreePagesFromDisk(EmptyManager(f))
         ELSE Ret(EmptyManager(f), 0, ""),
         LAMBDA l :
      IF Failed(l) THEN Ret(l.m, 0, IF l.err = "" THEN "" ELSE "failed to read free pages")
      ELSE newRecyclingPage(l.m))

\* Entry.Read and Entry.Write use the cursor of the Entry
Read(m, t, plen, cp, co) == read(m, t, plen, cp, co)

Write(m, t, p, cp, co) == write(m, t, p, cp, co)


(***************************************************************************)
(* Observations of a machine                                               *)
(***************************************************************************)
RECURSIVE SortedKeys(_)
SortedKeys(S) ==
    IF S = {} THEN <<>>
    ELSE LET k == CHOOSE x \in S : \A y \in S : x <= y IN <<k>> \o SortedKeys(S \ {k})

RECURSIVE Concat(_)
Concat(ss) == IF ss = <<>> THEN <<>> ELSE Head(ss) \o Concat(Tail(ss))

RECURSIVE TreeLeaves(_, _)
\* The physical pages reachable from pageTable t, left to right
TreeLeaves(m, t) ==
    IF m.pt[t].height = 0
    THEN LET ks == SortedKeys(DOMAIN m.pt[t].childPages) IN
         [i \in 1..Len(ks) |-> m.pt[t].childPages[ks[i]]]
    ELSE LET ks == SortedKeys(DOMAIN m.pt[t].childTables) IN
         Concat([i \in 1..Len(ks) |-> TreeLeaves(m, m.pt[t].childTables[ks[i]])])

\* The bytes of tieredPage t: the used part of each of its pages, in order
Content(m, t) ==
    Concat([i \in 1..Len(m.tp[t].pages) |->
              LET p == m.tp[t].pages[i] IN
              IF m.pp[p].usedSize <= 0 THEN <<>>
              ELSE FileReadAt(m.file, m.pp[p].fileOff, m.pp[p].usedSize)])

LeafOffsets(m, t) == [i \in 1..Len(m.tp[t].pages) |-> m.pp[m.tp[t].pages[i]].fileOff]

LeafUsed(m, t) == [i \in 1..Len(m.tp[t].pages) |-> m.pp[m.tp[t].pages[i]].usedSize]

RECURSIVE NodeOffs(_, _)
\* The offsets of the pages of the pageTables of the tree below pageTable t,
\* t included
NodeOffs(m, t) ==
    <<m.pp[m.pt[t].pp].fileOff>> \o
    (IF m.pt[t].height = 0 THEN <<>>
     ELSE LET ks == SortedKeys(DOMAIN m.pt[t].childTables) IN
          Concat([i \in 1..Len(ks) |-> NodeOffs(m, m.pt[t].childTables[ks[i]])]))

Height(m, t) == IF m.tp[t].root = 0 THEN -1 ELSE m.pt[m.tp[t].root].height

\* What is known of an entry when it leaves memory
Snapshot(m, t, restart) ==
    [usedSize |-> m.tp[t].usedSize, height |-> Height(m, t),
     offsets |-> LeafOffsets(m, t), content |-> Content(m, t), restart |-> restart]

\* The data of a Write (stamp 1) or WriteAt (stamp 2) of len bytes
Data(stamp, len) == [i \in 1..len |-> 100 * stamp + i]

(***************************************************************************)
(* The state machine: one PageManager on one file, used by one process     *)
(* through Entry handles.                                                  *)
(***************************************************************************)
MaxSteps == 4
MaxEntries == 2
MaxHandles == 2

VARIABLES
    file,          \* the cells of the database file
    pp,            \* heap of physicalPage
    pt,            \* heap of pageTable
    tp,            \* heap of tieredPage (entryPage, recyclingPage)
    freePages,     \* PageManager.freePages
    recyclePages,  \* PageManager.recyclePages
    entryPages,    \* PageManager.entryPages
    panic,         \* message of the panic that ended the process, or ""
    newErr,        \* error returned by New, or ""
    handles,       \* the Entry objects handed out: [ep, cursorPage, cursorOff, open]
    ids,           \* the Identifiers returned by Create
    last,          \* the last operation, its arguments, results and prior state
    wlog,          \* per entryPage: the data of its Write calls, whether Write is
                   \* all that was called on it since Create (pure), and whether
                   \* every Write was of whole pages (whole)
    snap,          \* per Identifier: the entry as it was when it left memory
    steps,         \* number of operations so far
    thr            \* the goroutines that allocate pages at the same time: the
                   \* holder of PageManager.mu, and each one's position,
                   \* offset read from the file, pages allocated, new pageTables

vars == <<file, pp, pt, tp, freePages, recyclePages, entryPages, panic, newErr,
          handles, ids, last, wlog, snap, steps, thr>>

M == [file |-> file, pp |-> pp, pt |-> pt, tp |-> tp, freePages |-> freePages,
      recyclePages |-> recyclePages, entryPages |-> entryPages, panic |-> panic,
      wr |-> <<>>]

SetM(m) ==
    /\ file' = m.file
    /\ pp' = m.pp
    /\ pt' = m.pt
    /\ tp' = m.tp
    /\ freePages' = m.freePages
    /\ recyclePages' = m.recyclePages
    /\ entryPages' = m.entryPages
    /\ panic' = m.panic

NoSnap == [usedSize |-> 0, height |-> 0, offsets |-> <<>>, content |-> <<>>,
           restart |-> FALSE]

NoOp ==
    [op |-> "", h |-> 0, t |-> 0, id |-> 0, len |-> 0, off |-> 0, whence |-> 0,
     size |-> 0, n |-> 0, err |-> "", data |-> <<>>,
     cp0 |-> 0, co0 |-> 0, used0 |-> 0, pages0 |-> <<>>, content0 |-> <<>>,
     free0 |-> 0, emptied |-> 0, recovered |-> FALSE, snap |-> NoSnap,
     file0 |-> <<>>, freeOffs0 |-> <<>>, reg0 |-> {}, recycle0 |-> FALSE,
     root0 |-> 0, wr |-> <<>>, nodes0 |-> <<>>]

\* The record of an operation op on handle h, with the state before it
Before(op, h) ==
    LET t == handles[h].ep IN
    [NoOp EXCEPT !.op = op, !.h = h, !.t = t,
                 !.cp0 = handles[h].cursorPage, !.co0 = handles[h].cursorOff,
                 !.used0 = tp[t].usedSize, !.pages0 = tp[t].pages,
                 !.content0 = Content(M, t),
                 !.root0 = tp[t].root,
                 !.free0 = IF freePages = 0 THEN 0 ELSE Len(tp[freePages].pages)]

Running == panic = "" /\ newErr = ""

\* No goroutine is inside an allocation
NoThreads ==
    [mu |-> 0, pc |-> <<>>, off |-> <<>>, n |-> <<>>, newPt |-> <<>>]

CanStep == Running /\ steps < MaxSteps

IsOpen(h) == h \in 1..Len(handles) /\ handles[h].open

NotOnlyWrites(t) == IF t \in DOMAIN wlog THEN [wlog EXCEPT ![t].pure = FALSE] ELSE wlog

Init ==
    LET n == New(<<>>, FALSE) IN
    /\ file = n.m.file
    /\ pp = n.m.pp
    /\ pt = n.m.pt
    /\ tp = n.m.tp
    /\ freePages = n.m.freePages
    /\ recyclePages = n.m.recyclePages
    /\ entryPages = n.m.entryPages
    /\ panic = n.m.panic
    /\ newErr = n.err
    /\ handles = <<>>
    /\ ids = {}
    /\ last = NoOp
    /\ wlog = EmptyMap
    /\ snap = EmptyMap
    /\ steps = 0
    /\ thr = NoThreads

DoCreate ==
    /\ CanStep
    /\ Cardinality(ids) < MaxEntries
    /\ Len(handles) < MaxHandles
    /\ LET r == Create(M) IN
       /\ SetM(r.m)
       /\ last' = [NoOp EXCEPT !.op = "Create", !.t = r.v.ep, !.id = r.v.id, !.err = r.err]
       /\ IF Failed(r)
          THEN UNCHANGED <<handles, ids, wlog>>
          ELSE /\ handles' = Append(handles, [ep |-> r.v.ep, cursorPage |-> 0,
                                              cursorOff |-> 0, open |-> TRUE])
               /\ ids' = ids \cup {r.v.id}
               /\ wlog' = MapPut(wlog, r.v.ep, [data |-> <<>>, pure |-> TRUE, whole |-> TRUE])
    /\ steps' = steps + 1
    /\ UNCHANGED thr
    /\ UNCHANGED <<newErr, snap>>

DoOpen(id) ==
    /\ CanStep
    /\ Len(handles) < MaxHandles
    /\ LET r == Open(M, id)
           isNew == id \notin DOMAIN entryPages
       IN /\ SetM(r.m)
          /\ last' = [NoOp EXCEPT !.op = "Open", !.t = r.v, !.id = id, !.err = r.err,
                                  !.file0 = file, !.reg0 = DOMAIN entryPages,
                                  !.recovered = isNew /\ id \in DOMAIN snap,
                                  !.snap = IF id \in DOMAIN snap THEN snap[id] ELSE NoSnap]
          /\ IF Failed(r)
             THEN UNCHANGED <<handles, wlog>>
             ELSE /\ handles' = Append(handles, [ep |-> r.v, cursorPage |-> 0,
                                                 cursorOff |-> 0, open |-> TRUE])
                  /\ wlog' = NotOnlyWrites(r.v)
    /\ steps' = steps + 1
    /\ UNCHANGED thr
    /\ UNCHANGED <<newErr, ids, snap>>

DoClose(h) ==
    /\ CanStep
    /\ IsOpen(h)
    /\ LET t == handles[h].ep
           id == pp[tp[t].pp].fileOff
           m == EntryClose(M, t)
       IN /\ SetM(m)
          /\ last' = [Before("Close", h) EXCEPT !.id = id]
          /\ snap' = IF id \notin DOMAIN m.entryPages
                     THEN MapPut(snap, id, Snapshot(M, t, FALSE)) ELSE snap
          /\ wlog' = NotOnlyWrites(t)
    /\ handles' = [handles EXCEPT ![h].open = FALSE]
    /\ steps' = steps + 1
    /\ UNCHANGED thr
    /\ UNCHANGED <<newErr, ids>>

DoWrite(h, len) ==
    /\ CanStep
    /\ IsOpen(h)
    /\ LET t == handles[h].ep
           d == Data(1, len)
       IN \E r \in {Write(M, t, d, handles[h].cursorPage, handles[h].cursorOff)} :
          /\ SetM(r.m)
          /\ handles' = [handles EXCEPT ![h].cursorPage = r.cp, ![h].cursorOff = r.co]
          /\ last' = [Before("Write", h) EXCEPT !.len = len, !.data = d, !.n = r.n,
                                                !.err = r.err, !.file0 = file,
                                                !.wr = r.m.wr]
          /\ wlog' = IF t \in DOMAIN wlog
                     THEN [wlog EXCEPT ![t].data = @ \o d,
                                       ![t].whole = @ /\ len % pageSize = 0]
                     ELSE wlog
    /\ steps' = steps + 1
    /\ UNCHANGED thr
    /\ UNCHANGED <<newErr, ids, snap>>

DoWriteAt(h, len, off) ==
    /\ CanStep
    /\ IsOpen(h)
    /\ LET t == handles[h].ep
           d == Data(2, len)
       IN \E r \in {WriteAt(M, t, d, off, handles[h].cursorPage, handles[h].cursorOff)} :
          /\ SetM(r.m)
          /\ handles' = [handles EXCEPT ![h].cursorPage = r.cp, ![h].cursorOff = r.co]
          /\ last' = [Before("WriteAt", h) EXCEPT !.len = len, !.off = off, !.data = d,
                                                  !.n = r.n, !.err = r.err]
          /\ wlog' = NotOnlyWrites(t)
    /\ steps' = steps + 1
    /\ UNCHANGED thr
    /\ UNCHANGED <<newErr, ids, snap>>

DoRead(h, len) ==
    /\ CanStep
    /\ IsOpen(h)
    /\ LET t == handles[h].ep
       IN \E r \in {Read(M, t, len, handles[h].cursorPage, handles[h].cursorOff)} :
          /\ SetM(r.m)
          /\ handles' = [handles EXCEPT ![h].cursorPage = r.cp, ![h].cursorOff = r.co]
          /\ last' = [Before("Read", h) EXCEPT !.len = len, !.data = r.data, !.n = r.n,
                                               !.err = r.err]
          /\ wlog' = NotOnlyWrites(t)
    /\ steps' = steps + 1
    /\ UNCHANGED thr
    /\ UNCHANGED <<newErr, ids, snap>>

DoReadAt(h, len, off) ==
    /\ CanStep
    /\ IsOpen(h)
    /\ LET t == handles[h].ep
       IN \E r \in {ReadAt(M, t, len, off, handles[h].cursorPage, handles[h].cursorOff)} :
          /\ SetM(r.m)
          /\ handles' = [handles EXCEPT ![h].cursorPage = r.cp, ![h].cursorOff = r.co]
          /\ last' = [Before("ReadAt", h) EXCEPT !.len = len, !.off = off, !.data = r.data,
                                                 !.n = r.n, !.err = r.err]
    /\ steps' = steps + 1
    /\ UNCHANGED thr
    /\ UNCHANGED <<newErr, ids, snap, wlog>>

DoSeek(h, off, whence) ==
    /\ CanStep
    /\ IsOpen(h)
    /\ LET t == handles[h].ep
       IN \E r \in {Seek(M, t, off, whence, handles[h].cursorPage, handles[h].cursorOff)} :
          /\ SetM(r.m)
          /\ handles' = [handles EXCEPT ![h].cursorPage = r.cp, ![h].cursorOff = r.co]
          /\ last' = [Before("Seek", h) EXCEPT !.off = off, !.whence = whence, !.n = r.n,
                                               !.err = r.err]
          /\ wlog' = NotOnlyWrites(t)
    /\ steps' = steps + 1
    /\ UNCHANGED thr
    /\ UNCHANGED <<newErr, ids, snap>>

\* The pageTables other than the root of t that had children in m0 and have
\* none in m1
Emptied(m0, m1, t) ==
    Cardinality({i \in 1..Len(m0.pt) :
        /\ i # m0.tp[t].root
        /\ MapLen(m0.pt[i].childTables) + MapLen(m0.pt[i].childPages) > 0
        /\ MapLen(m1.pt[i].childTables) + MapLen(m1.pt[i].childPages) = 0})

DoTruncate(h, size) ==
    /\ CanStep
    /\ IsOpen(h)
    /\ LET t == handles[h].ep
       IN \E r \in {Truncate(M, t, size)} :
          /\ SetM(r.m)
          /\ last' = [Before("Truncate", h) EXCEPT !.size = size, !.err = r.err,
                                                   !.emptied = Emptied(M, r.m, t),
                                                   !.wr = r.m.wr]
          /\ wlog' = NotOnlyWrites(t)
    /\ steps' = steps + 1
    /\ UNCHANGED thr
    /\ UNCHANGED <<newErr, ids, snap, handles>>

\* The process ends (PageManager.Close, or the panic that ended it) and a
\* new process calls New on the same path.
DoRestart ==
    /\ steps < MaxSteps
    /\ LET r == New(file, TRUE) IN
       /\ SetM(r.m)
       /\ newErr' = r.err
       /\ last' = [NoOp EXCEPT !.op = "Restart", !.err = r.err, !.file0 = file,
                               !.freeOffs0 = IF Running THEN LeafOffsets(M, freePages)
                                             ELSE <<>>,
                               !.recovered = Running]
       /\ snap' = IF Running
                  THEN [id \in DOMAIN snap \cup DOMAIN entryPages |->
                          IF id \in DOMAIN entryPages
                          THEN Snapshot(M, entryPages[id], TRUE)
                          ELSE [snap[id] EXCEPT !.restart = TRUE]]
                  ELSE EmptyMap
    /\ handles' = <<>>
    /\ wlog' = EmptyMap
    /\ steps' = steps + 1
    /\ UNCHANGED thr
    /\ UNCHANGED ids

WriteLens == {1, pageSize, pageSize + 1, numPageEntries * pageSize,
              (numPageEntries * numPageEntries + 1) * pageSize}
AtLens == {2, pageSize}
Offsets == {-1, 0, pageSize - 1, 2 * pageSize}
ReadLens == {1, 2 * pageSize}
SeekOffsets == {-(pageSize + 1), -1, 0, pageSize + 1}
Whences == 0..2
TruncateSizes == {-1, 0, 1, pageSize}
\* Identifiers no Create returned: the page of the root of the recycling page,
\* and an offset beyond the end of every file reached
UnknownIds == {dataOff, 20 * pageSize}

Next ==
    \/ DoCreate
    \/ \E id \in ids \cup UnknownIds : DoOpen(id)
    \/ \E h \in 1..MaxHandles : DoClose(h)
    \/ \E h \in 1..MaxHandles, len \in WriteLens : DoWrite(h, len)
    \/ \E h \in 1..MaxHandles, len \in AtLens, off \in Offsets : DoWriteAt(h, len, off)
    \/ \E h \in 1..MaxHandles, len \in ReadLens : DoRead(h, len)
    \/ \E h \in 1..MaxHandles, len \in AtLens, off \in Offsets : DoReadAt(h, len, off)
    \/ \E h \in 1..MaxHandles, off \in SeekOffsets, whence \in Whences : DoSeek(h, off, whence)
    \/ \E h \in 1..MaxHandles, size \in TruncateSizes : DoTruncate(h, size)
    \/ DoRestart

Spec == Init /\ [][Next]_vars

(***************************************************************************)
(* Page allocation by one goroutine: managedAllocatePage called directly,  *)
(* as the tests of the package do, between Create, Write and Truncate.     *)
(***************************************************************************)
DoAllocate ==
    /\ CanStep
    /\ LET r == managedAllocatePage(M) IN
       /\ SetM(r.m)
       /\ last' = [NoOp EXCEPT !.op = "Allocate", !.n = r.v, !.err = r.err,
                               !.file0 = file,
                               !.used0 = tp[freePages].usedSize,
                               !.free0 = Len(tp[freePages].pages),
                               !.freeOffs0 = LeafOffsets(M, freePages),
                               !.nodes0 = NodeOffs(M, tp[freePages].root),
                               !.recycle0 = recyclePages /\ tp_len(M, freePages) > 0]
    /\ steps' = steps + 1
    /\ UNCHANGED thr
    /\ UNCHANGED <<newErr, handles, ids, wlog, snap>>

AllocWriteLens == {1, (numPageEntries + 1) * pageSize, numPageEntries * numPageEntries * pageSize}
AllocTruncateSizes == {0, numPageEntries * pageSize}

NextAlloc ==
    \/ DoCreate
    \/ \E h \in 1..MaxHandles, len \in AllocWriteLens : DoWrite(h, len)
    \/ \E h \in 1..MaxHandles, size \in AllocTruncateSizes : DoTruncate(h, size)
    \/ DoAllocate

SpecAlloc == Init /\ [][NextAlloc]_vars

(***************************************************************************)
(* Reuse of pages: an entry was written and truncated, its pages are in    *)
(* the recycling page, and a second entry is created and used.             *)
(***************************************************************************)
\* The bytes of the first owner of the pages
OwnerData == Data(7, (numPageEntries + 1) * pageSize)

InitReuse ==
    \E n \in {New(<<>>, FALSE)} :
    \E a \in {Create(n.m)} :
    \E wa \in {Write(a.m, a.v.ep, OwnerData, 0, 0)} :
    \E ta \in {Truncate(wa.m, a.v.ep, numPageEntries * pageSize)} :
    \E b \in {Create(ta.m)} :
       /\ file = b.m.file
       /\ pp = b.m.pp
       /\ pt = b.m.pt
       /\ tp = b.m.tp
       /\ freePages = b.m.freePages
       /\ recyclePages = b.m.recyclePages
       /\ entryPages = b.m.entryPages
       /\ panic = b.m.panic
       /\ newErr = n.err
       /\ handles = <<[ep |-> b.v.ep, cursorPage |-> 0, cursorOff |-> 0, open |-> TRUE]>>
       /\ ids = {a.v.id, b.v.id}
       /\ last = NoOp
       /\ wlog = MapPut(EmptyMap, b.v.ep, [data |-> <<>>, pure |-> TRUE, whole |-> TRUE])
       /\ snap = EmptyMap
       /\ steps = 0
       /\ thr = NoThreads

NextReuse ==
    \/ \E len \in {1, pageSize} : DoWrite(1, len)
    \/ \E len \in {1, 2}, off \in {0, pageSize - 1} : DoWriteAt(1, len, off)
    \/ \E off \in {0, pageSize - 2}, whence \in {0, 1} : DoSeek(1, off, whence)
    \/ \E len \in {1, pageSize} : DoRead(1, len)
    \/ \E len \in {2, pageSize}, off \in {0, 1} : DoReadAt(1, len, off)

SpecReuse == InitReuse /\ [][NextReuse]_vars

(***************************************************************************)
(* physicalPage.writeAt and readAt called directly on a page of the file   *)
(* of a new manager, as TestPPWriteAt and TestPPReadAt do.  The page is    *)
(* the last of the heap.                                                   *)
(***************************************************************************)
MaxPageWrites == 3

PPFileOffs == {freeOff, 2 * pageSize}
\* The page of the test has usedSize 0.  The page that Open makes of an
\* Identifier has usedSize pageSize wherever the Identifier points: here, at
\* the end of the file.
PPUsedSize(f) == IF f = freeOff THEN 0 ELSE pageSize
PPLens == {0, 1, pageSize, pageSize + 1}
PPOffs == {-1, 0, 1, pageSize - 1, pageSize}

InitPage ==
    LET n == New(<<>>, FALSE) IN
    /\ file = n.m.file
    /\ \E f \in PPFileOffs : pp = NewPP(n.m, f, PPUsedSize(f)).pp
    /\ pt = n.m.pt
    /\ tp = n.m.tp
    /\ freePages = n.m.freePages
    /\ recyclePages = n.m.recyclePages
    /\ entryPages = n.m.entryPages
    /\ panic = n.m.panic
    /\ newErr = n.err
    /\ handles = <<>>
    /\ ids = {}
    /\ last = NoOp
    /\ wlog = EmptyMap
    /\ snap = EmptyMap
    /\ steps = 0
    /\ thr = NoThreads

\* The buffer of the k-th call: len cells that no other call writes
PPData(k, len) == [i \in 1..len |-> 100 * (k + 1) + i]

DoPPWriteAt(len, off) ==
    /\ Running
    /\ steps < MaxPageWrites
    /\ LET p == Len(pp)
           b == PPData(steps, len)
           r == writeAt(M, p, b, off)
       IN /\ SetM(r.m)
          /\ last' = [NoOp EXCEPT !.op = "writeAt", !.len = len, !.off = off,
                                  !.n = r.v, !.err = r.err, !.data = b,
                                  !.file0 = file, !.used0 = pp[p].usedSize]
    /\ steps' = steps + 1
    /\ UNCHANGED thr
    /\ UNCHANGED <<newErr, handles, ids, wlog, snap>>

PPReadLens == {1, pageSize + 1}
PPReadOffs == {-1, 0, 1, pageSize}

DoPPReadAt(len, off) ==
    /\ Running
    /\ steps < MaxPageWrites
    /\ LET p == Len(pp)
           r == readAt(M, p, len, off)
       IN /\ SetM(r.m)
          /\ last' = [NoOp EXCEPT !.op = "readAt", !.len = len, !.off = off,
                                  !.n = Len(r.v), !.err = r.err, !.data = r.v,
                                  !.file0 = file, !.used0 = pp[p].usedSize]
    /\ steps' = steps + 1
    /\ UNCHANGED thr
    /\ UNCHANGED <<newErr, handles, ids, wlog, snap>>

NextPage ==
    \/ \E len \in PPLens, off \in PPOffs : DoPPWriteAt(len, off)
    \/ \E len \in PPReadLens, off \in PPReadOffs : DoPPReadAt(len, off)

SpecPage == InitPage /\ [][NextPage]_vars

(***************************************************************************)
(* Two goroutines call WriteAt on one entry.  WriteAt takes the read lock  *)
(* of the entry; write gives it up and takes the write lock in the round   *)
(* of its loop in which it starts to append, and keeps the write lock to   *)
(* its end.  A round of the loop is one step.  sync.RWMutex lets no new    *)
(* reader in while a writer waits.                                         *)
(***************************************************************************)
WInitLens == {0, numPageEntries * pageSize}
WLens == {1, pageSize, 2 * pageSize}
WOffs == {0, numPageEntries * pageSize, (numPageEntries + 1) * pageSize}

WLocal(i, len, off) ==
    [len |-> len, off |-> off, p |-> PPData(i, len), cp |-> 0, co |-> 0,
     inc |-> 0, added |-> <<>>, appending |-> FALSE, err |-> ""]

InitWriters ==
    \E n \in {New(<<>>, FALSE)} :
    \E c \in {Create(n.m)} :
    \E len0 \in WInitLens, l1 \in WLens, l2 \in WLens, o1 \in WOffs, o2 \in WOffs :
    \E w0 \in {Write(c.m, c.v.ep, PPData(0, len0), 0, 0)} :
         /\ file = w0.m.file
         /\ pp = w0.m.pp
         /\ pt = w0.m.pt
         /\ tp = w0.m.tp
         /\ freePages = w0.m.freePages
         /\ recyclePages = w0.m.recyclePages
         /\ entryPages = w0.m.entryPages
         /\ panic = w0.m.panic
         /\ newErr = n.err
         /\ handles = <<[ep |-> c.v.ep, cursorPage |-> w0.cp, cursorOff |-> w0.co,
                         open |-> TRUE]>>
         /\ ids = {c.v.id}
         /\ last = NoOp
         /\ wlog = EmptyMap
         /\ snap = EmptyMap
         /\ steps = 0
         /\ thr = [mu |-> 0, rd |-> {}, pc |-> <<"start", "start">>,
                   m0 |-> [w0.m EXCEPT !.wr = <<>>],
                   w |-> <<WLocal(1, l1, o1), WLocal(2, l2, o2)>>]

WEntry == handles[1].ep

\* The goroutines that have called e.ep.mu.Lock() and wait for it
Pending == {j \in DOMAIN thr.pc : thr.pc[j] \in {"wantLock", "wantTruncate"}}

\* PageManager.mu is held by a goroutine inside Open or Entry.Close
ManagerLocked == \E j \in DOMAIN thr.pc : thr.pc[j] \in {"opening", "closing"}

\* The goroutine leaves write with the error err.  With the read lock only,
\* the deferred RUnlock of WriteAt runs.  With the write lock, the deferred
\* Unlock of write runs, and its deferred RLock is still to come.
WReturn(i, err) ==
    IF thr.mu = i
    THEN [thr EXCEPT !.mu = 0, !.pc[i] = "relock", !.w[i].err = err]
    ELSE [thr EXCEPT !.rd = @ \ {i}, !.pc[i] = "done", !.w[i].err = err]

\* "if *cursorPage >= int64(len(e.ep.pages)) || ..." of write: this round
\* adds a page or extends the last page
WAppends(i) ==
    LET w == thr.w[i]
        pages == tp[WEntry].pages
    IN \/ w.cp >= Len(pages)
       \/ /\ w.cp = Len(pages) - 1
          /\ w.co + Len(w.p) > pp[pages[w.cp + 1]].usedSize

\* "e.ep.mu.RLock()" and the seek of WriteAt
WStart(i) ==
    /\ Running
    /\ thr.pc[i] = "start"
    /\ thr.mu = 0
    /\ Pending = {}
    /\ LET s == seek(M, WEntry, thr.w[i].off, 0, 0) IN
       thr' = IF s.err # "" THEN WReturn(i, s.err)
              ELSE [thr EXCEPT !.rd = @ \cup {i}, !.pc[i] = "loop",
                               !.w[i].cp = s.cp, !.w[i].co = s.co]
    /\ UNCHANGED <<file, pp, pt, tp, freePages, recyclePages, entryPages, panic,
                   newErr, handles, ids, last, wlog, snap, steps>>

\* "e.ep.mu.RUnlock()" of write, before "e.ep.mu.Lock()"
WUnlockRead(i) ==
    /\ Running
    /\ thr.pc[i] = "loop"
    /\ Len(thr.w[i].p) > 0
    /\ ~thr.w[i].appending
    /\ WAppends(i)
    /\ thr' = [thr EXCEPT !.rd = @ \ {i}, !.pc[i] = "wantLock"]
    /\ UNCHANGED <<file, pp, pt, tp, freePages, recyclePages, entryPages, panic,
                   newErr, handles, ids, last, wlog, snap, steps>>

\* "e.ep.mu.Lock()" of write
WLock(i) ==
    /\ Running
    /\ thr.pc[i] = "wantLock"
    /\ thr.mu = 0
    /\ thr.rd = {}
    /\ thr' = [thr EXCEPT !.mu = i, !.pc[i] = "loop", !.w[i].appending = TRUE]
    /\ UNCHANGED <<file, pp, pt, tp, freePages, recyclePages, entryPages, panic,
                   newErr, handles, ids, last, wlog, snap, steps>>

\* A round of the loop of write that allocates a page: managedAllocatePage
\* takes PageManager.mu and gives it back
WAllocate(i) ==
    /\ Running
    /\ thr.pc[i] = "loop"
    /\ ~ManagerLocked
    /\ Len(thr.w[i].p) > 0
    /\ thr.w[i].appending
    /\ thr.w[i].cp >= Len(tp[WEntry].pages)
    /\ \E a \in {managedAllocatePage(M)} :
         IF Failed(a)
         THEN SetM(a.m) /\ thr' = WReturn(i, a.err)
         ELSE /\ SetM([a.m EXCEPT !.tp[WEntry].pages = Append(@, a.v)])
              /\ thr' = [thr EXCEPT !.w[i].added = Append(@, a.v)]
    /\ UNCHANGED <<newErr, handles, ids, last, wlog, snap, steps>>

\* A round of the loop of write that writes to a page
WPage(i) ==
    /\ Running
    /\ thr.pc[i] = "loop"
    /\ Len(thr.w[i].p) > 0
    /\ thr.w[i].appending \/ ~WAppends(i)
    /\ thr.w[i].cp < Len(tp[WEntry].pages)
    /\ LET w == thr.w[i]
           page == tp[WEntry].pages[w.cp + 1]
       IN \E r \in {writeAt(M, page, w.p, w.co)} :
          \E s \in {seek(r.m, WEntry, r.v, w.cp, w.co)} :
          /\ SetM(r.m)
          /\ thr' = IF r.err # "" THEN WReturn(i, r.err)
                    ELSE IF s.err # "" THEN WReturn(i, s.err)
                    ELSE [thr EXCEPT !.w[i].p = Drop(w.p, r.v),
                                     !.w[i].inc = @ + (r.m.pp[page].usedSize - pp[page].usedSize),
                                     !.w[i].cp = s.cp, !.w[i].co = s.co]
    /\ UNCHANGED <<newErr, handles, ids, last, wlog, snap, steps>>

\* "err := e.ep.addPages(addedPages, byteIncrease)" and the return of write
WFinish(i) ==
    /\ Running
    /\ thr.pc[i] = "loop"
    /\ Len(thr.w[i].p) = 0
    /\ \E a \in {ep_addPages(M, WEntry, thr.w[i].added, thr.w[i].inc)} :
         /\ SetM(a.m)
         /\ thr' = WReturn(i, IF a.err = "" THEN "" ELSE "failed to add pages to entryPage")
    /\ UNCHANGED <<newErr, handles, ids, last, wlog, snap, steps>>

\* "defer e.ep.mu.RLock()" of write, followed by the deferred RUnlock of
\* WriteAt
WRelock(i) ==
    /\ Running
    /\ thr.pc[i] = "relock"
    /\ thr.mu = 0
    /\ Pending = {}
    /\ thr' = [thr EXCEPT !.pc[i] = "done"]
    /\ UNCHANGED <<file, pp, pt, tp, freePages, recyclePages, entryPages, panic,
                   newErr, handles, ids, last, wlog, snap, steps>>

NextWriters ==
    \/ \E i \in 1..2 : WStart(i)
    \/ \E i \in 1..2 : WUnlockRead(i)
    \/ \E i \in 1..2 : WLock(i)
    \/ \E i \in 1..2 : WAllocate(i)
    \/ \E i \in 1..2 : WPage(i)
    \/ \E i \in 1..2 : WFinish(i)
    \/ \E i \in 1..2 : WRelock(i)

SpecWriters == InitWriters /\ [][NextWriters]_vars

(***************************************************************************)
(* One goroutine calls WriteAt and one calls Truncate on the same entry of *)
(* a manager whose recycling page has been in use, while a third opens and *)
(* closes a handle of the entry and a fourth calls ReadAt.  Truncate holds *)
(* the write lock of the entry from its first to its last statement, Open  *)
(* and Close hold PageManager.mu, ReadAt holds the read lock of the entry. *)
(***************************************************************************)
WTInitLens == {numPageEntries * pageSize}
WTLens == {1, pageSize}
WTOffs == {0, pageSize, numPageEntries * pageSize}
WTSizes == {0, pageSize}

InitWriteTruncate ==
    \E n \in {New(<<>>, FALSE)} :
    \E a \in {Create(n.m)} :
    \E wa \in {Write(a.m, a.v.ep, OwnerData, 0, 0)} :
    \E ta \in {Truncate(wa.m, a.v.ep, numPageEntries * pageSize)} :
    \E c \in {Create(ta.m)} :
    \E len0 \in WTInitLens, l1 \in WTLens, o1 \in WTOffs, size \in WTSizes :
    \E w0 \in {Write(c.m, c.v.ep, PPData(0, len0), 0, 0)} :
         /\ file = w0.m.file
         /\ pp = w0.m.pp
         /\ pt = w0.m.pt
         /\ tp = w0.m.tp
         /\ freePages = w0.m.freePages
         /\ recyclePages = w0.m.recyclePages
         /\ entryPages = w0.m.entryPages
         /\ panic = w0.m.panic
         /\ newErr = n.err
         /\ handles = <<[ep |-> c.v.ep, cursorPage |-> w0.cp, cursorOff |-> w0.co,
                         open |-> TRUE]>>
         /\ ids = {a.v.id, c.v.id}
         /\ last = NoOp
         /\ wlog = EmptyMap
         /\ snap = EmptyMap
         /\ steps = 0
         /\ thr = [mu |-> 0, rd |-> {}, pc |-> <<"start", "truncate", "open", "read">>,
                   m0 |-> [w0.m EXCEPT !.wr = <<>>],
                   w |-> <<WLocal(1, l1, o1), [size |-> size, err |-> ""],
                           [id |-> c.v.id, err |-> ""],
                           [len |-> pageSize, off |-> pageSize, n |-> 0, err |-> ""]>>]

\* "e.ep.mu.Lock()" of Truncate is called
TWant(i) ==
    /\ Running
    /\ thr.pc[i] = "truncate"
    /\ thr' = [thr EXCEPT !.pc[i] = "wantTruncate"]
    /\ UNCHANGED <<file, pp, pt, tp, freePages, recyclePages, entryPages, panic,
                   newErr, handles, ids, last, wlog, snap, steps>>

\* Truncate gets the write lock, truncates and gives the lock back
TRun(i) ==
    /\ Running
    /\ thr.pc[i] = "wantTruncate"
    /\ thr.mu = 0
    /\ thr.rd = {}
    /\ \E r \in {Truncate(M, WEntry, thr.w[i].size)} :
         /\ SetM(r.m)
         /\ thr' = [thr EXCEPT !.pc[i] = "done", !.w[i].err = r.err]
    /\ UNCHANGED <<newErr, handles, ids, last, wlog, snap, steps>>

\* "p.mu.Lock()" of Open
OLock(i) ==
    /\ Running
    /\ thr.pc[i] = "open"
    /\ ~ManagerLocked
    /\ thr' = [thr EXCEPT !.pc[i] = "opening"]
    /\ UNCHANGED <<file, pp, pt, tp, freePages, recyclePages, entryPages, panic,
                   newErr, handles, ids, last, wlog, snap, steps>>

\* Open under PageManager.mu, and its deferred Unlock
ORun(i) ==
    /\ Running
    /\ thr.pc[i] = "opening"
    /\ \E r \in {Open(M, thr.w[i].id)} :
         /\ SetM(r.m)
         /\ thr' = [thr EXCEPT !.pc[i] = IF Failed(r) THEN "done" ELSE "close",
                               !.w[i].err = r.err]
    /\ UNCHANGED <<newErr, handles, ids, last, wlog, snap, steps>>

\* "e.ep.pm.mu.Lock()" of Entry.Close
CLock(i) ==
    /\ Running
    /\ thr.pc[i] = "close"
    /\ ~ManagerLocked
    /\ thr' = [thr EXCEPT !.pc[i] = "closing"]
    /\ UNCHANGED <<file, pp, pt, tp, freePages, recyclePages, entryPages, panic,
                   newErr, handles, ids, last, wlog, snap, steps>>

\* Entry.Close under PageManager.mu, and its deferred Unlock
CRun(i) ==
    /\ Running
    /\ thr.pc[i] = "closing"
    /\ SetM(EntryClose(M, WEntry))
    /\ thr' = [thr EXCEPT !.pc[i] = "done"]
    /\ UNCHANGED <<newErr, handles, ids, last, wlog, snap, steps>>

\* "e.ep.mu.RLock()" of ReadAt
RStart(i) ==
    /\ Running
    /\ thr.pc[i] = "read"
    /\ thr.mu = 0
    /\ Pending = {}
    /\ thr' = [thr EXCEPT !.rd = @ \cup {i}, !.pc[i] = "reading"]
    /\ UNCHANGED <<file, pp, pt, tp, freePages, recyclePages, entryPages, panic,
                   newErr, handles, ids, last, wlog, snap, steps>>

\* ReadAt under the read lock, and its deferred RUnlock
RRun(i) ==
    /\ Running
    /\ thr.pc[i] = "reading"
    /\ \E r \in {ReadAt(M, WEntry, thr.w[i].len, thr.w[i].off, 0, 0)} :
         /\ SetM(r.m)
         /\ thr' = [thr EXCEPT !.rd = @ \ {i}, !.pc[i] = "done",
                               !.w[i].n = r.n, !.w[i].err = r.err]
    /\ UNCHANGED <<newErr, handles, ids, last, wlog, snap, steps>>

\* The steps of the goroutine in WriteAt
WriteAtStep ==
    \/ WStart(1)
    \/ WUnlockRead(1)
    \/ WLock(1)
    \/ WAllocate(1)
    \/ WPage(1)
    \/ WFinish(1)
    \/ WRelock(1)

\* The steps of the goroutine in Truncate
TruncateStep == TWant(2) \/ TRun(2)

\* The steps of the goroutine in Open and Close
OpenCloseStep == OLock(3) \/ ORun(3) \/ CLock(3) \/ CRun(3)

\* The steps of the goroutine in ReadAt
ReadAtStep == RStart(4) \/ RRun(4)

NextWriteTruncate ==
    \/ WriteAtStep
    \/ TruncateStep
    \/ OpenCloseStep
    \/ ReadAtStep

SpecWriteTruncate == InitWriteTruncate /\ [][NextWriteTruncate]_vars

\* The scheduler of Go runs every goroutine that can run, and sync.RWMutex
\* and sync.Mutex give the lock to a goroutine that waits for it
FairWriteTruncate ==
    /\ SpecWriteTruncate
    /\ WF_vars(WriteAtStep)
    /\ WF_vars(TruncateStep)
    /\ WF_vars(OpenCloseStep)
    /\ WF_vars(ReadAtStep)

(***************************************************************************)
(* Page allocation by several goroutines.  Each goroutine is inside         *)
(* Entry.write on an entry of its own and holds only that entry's mutex.    *)
(* A data page is allocated by managedAllocatePage, which holds             *)
(* PageManager.mu around allocatePage; the page of a new pageTable is       *)
(* allocated by newPageTable, which insertPage and extendPageTableTree call *)
(* and which calls allocatePage with no lock.  allocatePage reads the end   *)
(* of the file and then writes the zeroed page there: two steps.            *)
(***************************************************************************)
MaxAllocs == 2

Threads == 1..Len(thr.pc)

ThreadEntry(i) == handles[i].ep

\* "if p.recyclePages && p.freePages.len() > 0" of allocatePage is false
NoRecycling == ~(recyclePages /\ freePages # 0 /\ tp_len(M, freePages) > 0)

InitThreads ==
    LET n == New(<<>>, FALSE)
        c1 == Create(n.m)
        c2 == Create(c1.m)
    IN /\ file = c2.m.file
       /\ pp = c2.m.pp
       /\ pt = c2.m.pt
       /\ tp = c2.m.tp
       /\ freePages = c2.m.freePages
       /\ recyclePages = c2.m.recyclePages
       /\ entryPages = c2.m.entryPages
       /\ panic = c2.m.panic
       /\ newErr = n.err
       /\ handles = <<[ep |-> c1.v.ep, cursorPage |-> 0, cursorOff |-> 0, open |-> TRUE],
                      [ep |-> c2.v.ep, cursorPage |-> 0, cursorOff |-> 0, open |-> TRUE]>>
       /\ ids = {c1.v.id, c2.v.id}
       /\ last = NoOp
       /\ wlog = EmptyMap
       /\ snap = EmptyMap
       /\ steps = 0
       /\ thr = [mu |-> 0, pc |-> <<"idle", "idle">>, off |-> <<0, 0>>,
                 n |-> <<0, 0>>, newPt |-> << <<>>, <<>> >>]

\* "p.mu.Lock()" of managedAllocatePage
ManagedLock(i) ==
    /\ Running
    /\ thr.pc[i] = "idle"
    /\ thr.n[i] < MaxAllocs
    /\ thr.mu = 0
    /\ thr' = [thr EXCEPT !.mu = i, !.pc[i] = "locked"]
    /\ UNCHANGED <<file, pp, pt, tp, freePages, recyclePages, entryPages, panic,
                   newErr, handles, ids, last, wlog, snap, steps>>

\* allocatePage under the lock, up to the offset of the new page
ManagedSeek(i) ==
    /\ thr.pc[i] = "locked"
    /\ NoRecycling
    /\ thr' = [thr EXCEPT !.off[i] = seekEndPage(file), !.pc[i] = "seeked"]
    /\ UNCHANGED <<file, pp, pt, tp, freePages, recyclePages, entryPages, panic,
                   newErr, handles, ids, last, wlog, snap, steps>>

\* the rest of allocatePage, "p.mu.Unlock()", and
\* "e.ep.pages = append(e.ep.pages, newPage)" of Entry.write
ManagedWrite(i) ==
    /\ thr.pc[i] = "seeked"
    /\ LET m == zeroNewPage(M, thr.off[i]) IN
       /\ file' = m.file
       /\ pp' = m.pp
       /\ tp' = [tp EXCEPT ![ThreadEntry(i)].pages = Append(@, Len(m.pp))]
    /\ thr' = [thr EXCEPT !.mu = 0, !.pc[i] = "idle", !.n[i] = @ + 1]
    /\ UNCHANGED <<pt, freePages, recyclePages, entryPages, panic,
                   newErr, handles, ids, last, wlog, snap, steps>>

\* newPageTable called by extendPageTableTree: allocatePage without the lock,
\* up to the offset of the new page
TableSeek(i) ==
    /\ Running
    /\ thr.pc[i] = "idle"
    /\ thr.n[i] < MaxAllocs
    /\ NoRecycling
    /\ thr' = [thr EXCEPT !.off[i] = seekEndPage(file), !.pc[i] = "tableSeeked"]
    /\ UNCHANGED <<file, pp, pt, tp, freePages, recyclePages, entryPages, panic,
                   newErr, handles, ids, last, wlog, snap, steps>>

\* the rest of allocatePage and of newPageTable: the new pageTable on its page
TableWrite(i) ==
    /\ thr.pc[i] = "tableSeeked"
    /\ LET m == zeroNewPage(M, thr.off[i]) IN
       /\ file' = m.file
       /\ pp' = m.pp
       /\ pt' = Append(pt, EmptyTable(pt[tp[ThreadEntry(i)].root].height + 1, 0, Len(m.pp)))
    /\ thr' = [thr EXCEPT !.pc[i] = "idle", !.n[i] = @ + 1,
                          !.newPt[i] = Append(@, Len(pt) + 1)]
    /\ UNCHANGED <<tp, freePages, recyclePages, entryPages, panic,
                   newErr, handles, ids, last, wlog, snap, steps>>

NextThreads ==
    \/ \E i \in Threads : ManagedLock(i)
    \/ \E i \in Threads : ManagedSeek(i)
    \/ \E i \in Threads : ManagedWrite(i)
    \/ \E i \in Threads : TableSeek(i)
    \/ \E i \in Threads : TableWrite(i)

SpecThreads == InitThreads /\ [][NextThreads]_vars

(***************************************************************************)
(* Recovery of grown trees: the PageManager holds one entry that was       *)
(* written with more than one page, and the entry is closed, opened again, *)
(* written and truncated.                                                  *)
(***************************************************************************)
RecoverInitLens == {pageSize + 1, numPageEntries * pageSize, numPageEntries * pageSize + 1}

InitRecover ==
    \E n \in {New(<<>>, FALSE)} :
    \E c \in {Create(n.m)} :
    \E len0 \in RecoverInitLens :
    \E w0 \in {Write(c.m, c.v.ep, Data(1, len0), 0, 0)} :
         /\ file = w0.m.file
         /\ pp = w0.m.pp
         /\ pt = w0.m.pt
         /\ tp = w0.m.tp
         /\ freePages = w0.m.freePages
         /\ recyclePages = w0.m.recyclePages
         /\ entryPages = w0.m.entryPages
         /\ panic = w0.m.panic
         /\ newErr = n.err
         /\ handles = <<[ep |-> c.v.ep, cursorPage |-> w0.cp, cursorOff |-> w0.co,
                         open |-> TRUE]>>
         /\ ids = {c.v.id}
         /\ last = NoOp
         /\ wlog = MapPut(EmptyMap, c.v.ep,
                          [data |-> Data(1, len0), pure |-> TRUE,
                           whole |-> len0 % pageSize = 0])
         /\ snap = EmptyMap
         /\ steps = 0
         /\ thr = NoThreads

NextRecover ==
    \/ \E id \in ids : DoOpen(id)
    \/ \E h \in 1..MaxHandles : DoClose(h)
    \/ \E h \in 1..MaxHandles, len \in {1, pageSize} : DoWrite(h, len)
    \/ \E h \in 1..MaxHandles, size \in {1, pageSize + 1} : DoTruncate(h, size)

SpecRecover == InitRecover /\ [][NextRecover]_vars

(***************************************************************************)
(* Goroutines that change the recycling page: Truncate on an entry hands   *)
(* a page to recyclingPage.addPages while it holds only the lock of its    *)
(* entry, and managedAllocatePage takes a page with recyclingPage.freePage *)
(* under the mutex of the PageManager.  recyclePages is read and written   *)
(* without a lock of its own, so the steps between the accesses interleave.*)
(***************************************************************************)
InitRecycle ==
    \E n \in {New(<<>>, FALSE)} :
    \E c1 \in {Create(n.m)} :
    \E w1 \in {Write(c1.m, c1.v.ep, Data(1, numPageEntries * pageSize), 0, 0)} :
    \E c2 \in {Create(w1.m)} :
    \E w2 \in {Write(c2.m, c2.v.ep, Data(2, numPageEntries * pageSize), 0, 0)} :
    \E c3 \in {Create(w2.m)} :
    \E w3 \in {Write(c3.m, c3.v.ep, Data(3, (numPageEntries + 1) * pageSize), 0, 0)} :
    \E t3 \in {Truncate(w3.m, c3.v.ep, numPageEntries * pageSize)} :
       /\ file = t3.m.file
       /\ pp = t3.m.pp
       /\ pt = t3.m.pt
       /\ tp = t3.m.tp
       /\ freePages = t3.m.freePages
       /\ recyclePages = t3.m.recyclePages
       /\ entryPages = t3.m.entryPages
       /\ panic = t3.m.panic
       /\ newErr = n.err
       /\ handles = <<[ep |-> c1.v.ep, cursorPage |-> w1.cp, cursorOff |-> w1.co, open |-> TRUE],
                      [ep |-> c2.v.ep, cursorPage |-> w2.cp, cursorOff |-> w2.co, open |-> TRUE]>>
       /\ ids = {c1.v.id, c2.v.id, c3.v.id}
       /\ last = NoOp
       /\ wlog = EmptyMap
       /\ snap = EmptyMap
       /\ steps = 0
       /\ thr = [mu |-> 0, pc |-> <<"idle", "idle">>, n |-> <<0, 0>>,
                 page |-> <<0, 0>>, flag0 |-> <<TRUE, TRUE>>, kept |-> <<TRUE, TRUE>>]

\* The goroutines other than i that are inside addPages or freePage
Mutating(i) ==
    {j \in Threads \ {i} : thr.pc[j] \in {"adding", "added", "popEntered", "popped"}}

\* The variables that no step of these goroutines changes
RecycleFixed == <<newErr, handles, ids, last, wlog, snap, steps>>

\* recyclingPage.addPages called by recursiveTruncate for the last page of the
\* entry of goroutine i: "rp.pm.recyclePages = false"
AddEnter(i) ==
    /\ Running
    /\ thr.pc[i] = "idle"
    /\ Len(tp[ThreadEntry(i)].pages) > 0
    /\ recyclePages' = FALSE
    /\ thr' = [thr EXCEPT !.pc[i] = "adding", !.flag0[i] = recyclePages,
                          !.page[i] = Last(tp[ThreadEntry(i)].pages)]
    /\ UNCHANGED <<file, pp, pt, tp, freePages, entryPages, panic>>
    /\ UNCHANGED RecycleFixed

\* The body of addPages: the page, taken out of its entry by recursiveTruncate,
\* is inserted into the tree of the recycling page and the anchor is written
AddInsert(i) ==
    /\ Running
    /\ thr.pc[i] = "adding"
    /\ LET t == ThreadEntry(i)
           leaf == walkToLeaf(M, tp[t].root, Len(tp[t].pages) - 1).v
           taken == [M EXCEPT !.pt[leaf].childPages =
                                  MapDel(@, (Len(tp[t].pages) - 1) % numPageEntries),
                              !.tp[t].pages = Front(@)]
       IN \E a \in {rp_addPages(taken, <<thr.page[i]>>)} :
            SetM([a.m EXCEPT !.recyclePages = FALSE])
    /\ thr' = [thr EXCEPT !.pc[i] = "added"]
    /\ UNCHANGED RecycleFixed

\* The deferred "rp.pm.recyclePages = true" of addPages, and
\* "tp.usedSize -= page.usedSize" of recursiveTruncate
AddExit(i) ==
    /\ Running
    /\ thr.pc[i] = "added"
    /\ recyclePages' = TRUE
    /\ tp' = [tp EXCEPT ![ThreadEntry(i)].usedSize = @ - pp[thr.page[i]].usedSize]
    /\ thr' = [thr EXCEPT !.pc[i] = "idle", !.kept[i] = @ /\ thr.flag0[i] = TRUE]
    /\ UNCHANGED <<file, pp, pt, freePages, entryPages, panic>>
    /\ UNCHANGED RecycleFixed

\* "p.mu.Lock()" of managedAllocatePage
AllocLock(i) ==
    /\ Running
    /\ thr.pc[i] = "idle"
    /\ thr.n[i] < MaxAllocs
    /\ thr.mu = 0
    /\ thr' = [thr EXCEPT !.mu = i, !.pc[i] = "locked"]
    /\ UNCHANGED <<file, pp, pt, tp, freePages, recyclePages, entryPages, panic>>
    /\ UNCHANGED RecycleFixed

\* "if p.recyclePages && p.freePages != nil && p.freePages.len() > 0" of
\* allocatePage
AllocCheck(i) ==
    /\ Running
    /\ thr.pc[i] = "locked"
    /\ thr' = [thr EXCEPT !.pc[i] = IF NoRecycling THEN "extending" ELSE "popping"]
    /\ UNCHANGED <<file, pp, pt, tp, freePages, recyclePages, entryPages, panic>>
    /\ UNCHANGED RecycleFixed

\* allocatePage without recycling: a new page at the end of the file, and
\* "p.mu.Unlock()"
AllocExtend(i) ==
    /\ Running
    /\ thr.pc[i] = "extending"
    /\ SetM([zeroNewPage(M, seekEndPage(file)) EXCEPT !.recyclePages = recyclePages])
    /\ thr' = [thr EXCEPT !.mu = 0, !.pc[i] = "idle", !.n[i] = @ + 1,
                          !.page[i] = Len(pp) + 1]
    /\ UNCHANGED RecycleFixed

\* freePage called by allocatePage: "rp.pm.recyclePages = false"
PopEnter(i) ==
    /\ Running
    /\ thr.pc[i] = "popping"
    /\ recyclePages' = FALSE
    /\ thr' = [thr EXCEPT !.pc[i] = "popEntered", !.flag0[i] = recyclePages]
    /\ UNCHANGED <<file, pp, pt, tp, freePages, entryPages, panic>>
    /\ UNCHANGED RecycleFixed

\* The body of freePage: the last page is taken out of the recycling page
PopRemove(i) ==
    /\ Running
    /\ thr.pc[i] = "popEntered"
    /\ \E r \in {freePage(M)} :
         /\ SetM([r.m EXCEPT !.recyclePages = FALSE])
         /\ thr' = [thr EXCEPT !.pc[i] = "popped", !.page[i] = r.v]
    /\ UNCHANGED RecycleFixed

\* The deferred "rp.pm.recyclePages = true" of freePage,
\* "removedPage.usedSize = 0" of allocatePage and "p.mu.Unlock()"
PopExit(i) ==
    /\ Running
    /\ thr.pc[i] = "popped"
    /\ recyclePages' = TRUE
    /\ pp' = IF thr.page[i] \in 1..Len(pp) THEN [pp EXCEPT ![thr.page[i]].usedSize = 0] ELSE pp
    /\ thr' = [thr EXCEPT !.mu = 0, !.pc[i] = "idle", !.n[i] = @ + 1,
                          !.kept[i] = @ /\ thr.flag0[i] = TRUE]
    /\ UNCHANGED <<file, pt, tp, freePages, entryPages, panic>>
    /\ UNCHANGED RecycleFixed

NextRecycle ==
    \/ \E i \in Threads : AddEnter(i)
    \/ \E i \in Threads : AddInsert(i)
    \/ \E i \in Threads : AddExit(i)
    \/ \E i \in Threads : AllocLock(i)
    \/ \E i \in Threads : AllocCheck(i)
    \/ \E i \in Threads : AllocExtend(i)
    \/ \E i \in Threads : PopEnter(i)
    \/ \E i \in Threads : PopRemove(i)
    \/ \E i \in Threads : PopExit(i)

SpecRecycle == InitRecycle /\ [][NextRecycle]_vars

(***************************************************************************)
(* Properties.  Each is a predicate of the state after an operation: last  *)
(* names the operation and holds what is needed of the state before it.    *)
(* What a later call would return is computed with the operators above on  *)
(* the machine M of the current state.                                     *)
(***************************************************************************)
\* The operation of last ended without a panic and without an error
LastOk == panic = "" /\ last.err = ""

\* ceil(a / pageSize)
PagesFor(a) == (a + pageSize - 1) \div pageSize

\* s is t followed by more elements, or t itself
Extends(s, t) == Len(s) >= Len(t) /\ SubSeq(s, 1, Len(t)) = t

\* C1: for every entry and offset off with 0 <= off < used_size (the size
\* after the write), after WriteAt(data, off) returned without error,
\* ReadAt(buf, off) with len(buf) = len(data) returns exactly
\* data[0 .. min(len(data), used_size - off)).
C1_ReadAtReturnsWriteAt ==
    (/\ last.op = "WriteAt"
     /\ LastOk
     /\ 0 <= last.off
     /\ last.off < tp[last.t].usedSize)
    => Bind(ReadAt(M, last.t, last.len, last.off, 0, 0), LAMBDA r :
         /\ r.m.panic = ""
         /\ r.err = ""
         /\ r.data = Take(last.data, Min(last.len, tp[last.t].usedSize - last.off)))

\* A WriteAt of 2 bytes across the boundary of the two pages of an entry,
\* after which ReadAt of 2 bytes at the same offset ends in a panic
C1_Witness ==
    /\ last.op = "WriteAt"
    /\ LastOk
    /\ last.len = 2
    /\ last.off = pageSize - 1
    /\ Len(last.pages0) = 2
    /\ ReadAt(M, last.t, last.len, last.off, 0, 0).m.panic = "slice bounds out of range"

\* C2: for any sequence of Write calls of arbitrary lengths on a newly
\* created entry, every newly allocated leaf is appended at the index equal to
\* the current leaf count and no existing leaf is replaced, so that afterwards
\* used_size is the total number of bytes written and ReadAt(buf, 0) returns
\* the concatenation of the written data.
C2_WritesAppendLeaves ==
    (/\ last.op = "Write"
     /\ last.t \in DOMAIN wlog
     /\ wlog[last.t].pure)
    => /\ LastOk
       /\ Extends(tp[last.t].pages, last.pages0)
       /\ TreeLeaves(M, tp[last.t].root) = tp[last.t].pages
       /\ tp[last.t].usedSize = Len(wlog[last.t].data)
       /\ Bind(ReadAt(M, last.t, Len(wlog[last.t].data), 0, 0, 0), LAMBDA r :
            r.m.panic = "" /\ r.err = "" /\ r.data = wlog[last.t].data)

\* A Write of a whole page after a Write of one byte, ended by the panic of
\* insertPage
C2_Witness ==
    /\ last.op = "Write"
    /\ last.t \in DOMAIN wlog
    /\ wlog[last.t].pure
    /\ last.used0 = 1
    /\ last.len = pageSize
    /\ panic = "Inserting shouldn't create a gap"

\* C3: for any sequence of whole-page writes totalling N * pageSize bytes that
\* starts from an empty entry, the tree of the entry page has exactly N leaves
\* and used_size = N * pageSize, for every N, also where the tree needs a
\* height of 2 or more.
C3_WholePageWrites ==
    (/\ last.op = "Write"
     /\ last.t \in DOMAIN wlog
     /\ wlog[last.t].pure
     /\ wlog[last.t].whole)
    => /\ LastOk
       /\ Len(TreeLeaves(M, tp[last.t].root)) = Len(wlog[last.t].data) \div pageSize
       /\ tp[last.t].usedSize = Len(wlog[last.t].data)

\* A Write of whole pages whose last page has the index numPageEntries^2,
\* ended by a panic while the tree is written
C3_Witness ==
    /\ last.op = "Write"
    /\ last.t \in DOMAIN wlog
    /\ wlog[last.t].pure
    /\ wlog[last.t].whole
    /\ Len(wlog[last.t].data) = (numPageEntries * numPageEntries + 1) * pageSize
    /\ panic = "nil pointer dereference in Marshal"

\* C4: after Truncate(s) with 0 <= s <= used_size, used_size = s, the number
\* of leaves is ceil(s / pageSize), and the number of pages added to the
\* free-list is the prior number of leaves minus the new one plus one page for
\* every internal node that became empty.
C4_TruncateSizes ==
    (/\ last.op = "Truncate"
     /\ 0 <= last.size
     /\ last.size <= last.used0)
    => /\ LastOk
       /\ tp[last.t].usedSize = last.size
       /\ Len(tp[last.t].pages) = PagesFor(last.size)
       /\ Len(tp[freePages].pages) - last.free0
            = Len(last.pages0) - Len(tp[last.t].pages) + last.emptied

\* Truncate(0) of an entry of one byte that returned without error and left a
\* negative usedSize
C4_Witness ==
    /\ last.op = "Truncate"
    /\ LastOk
    /\ last.size = 0
    /\ last.used0 = 1
    /\ tp[last.t].usedSize = 1 - pageSize

\* C5: Truncate(s) with 0 <= s <= used_size leaves the first s bytes of the
\* entry unchanged (reading s bytes from offset 0 returns the bytes it
\* returned before the truncation), and the next Read at position s returns
\* EOF.
C5_TruncateKeepsPrefix ==
    (/\ last.op = "Truncate"
     /\ 0 <= last.size
     /\ last.size <= last.used0)
    => /\ LastOk
       /\ last.size > 0 =>
            Bind(ReadAt(M, last.t, last.size, 0, 0, 0), LAMBDA r :
              r.m.panic = "" /\ r.err = "" /\ r.data = Take(last.content0, last.size))
       /\ Bind(Seek(M, last.t, last.size, 0, 0, 0), LAMBDA s :
            /\ s.err = ""
            /\ Bind(Read(M, last.t, 1, s.cp, s.co), LAMBDA r :
                 r.m.panic = "" /\ r.err = "EOF"))

\* Truncate(0) of an entry of pageSize + 1 bytes that returned without error,
\* after which a Read at position 0 returns data
C5_Witness ==
    /\ last.op = "Truncate"
    /\ LastOk
    /\ last.size = 0
    /\ last.used0 = pageSize + 1
    /\ Bind(Read(M, last.t, 1, 0, 0), LAMBDA r : r.err = "" /\ r.n = 1)

\* The used sizes recovery gives to n leaves of an entry of usedSize bytes:
\* pageSize for every leaf but the last, which gets the remainder
RecoveredUsed(n, usedSize) ==
    [i \in 1..n |-> IF i < n THEN pageSize ELSE usedSize - (n - 1) * pageSize]

\* C6: recovery is a left-inverse of mutation: for an entry brought into any
\* state by Create, Write, WriteAt and Truncate, once it is no longer
\* registered, Open(id) rebuilds an entry page whose used_size, root height
\* and left-to-right sequence of leaves (the page offsets, with a used size of
\* pageSize for every leaf but the last, which gets the remainder) are those
\* at close time.
C6_OpenRebuildsEntry ==
    (/\ last.op = "Open"
     /\ last.recovered
     /\ ~last.snap.restart)
    => /\ LastOk
       /\ tp[last.t].usedSize = last.snap.usedSize
       /\ Height(M, last.t) = last.snap.height
       /\ LeafOffsets(M, last.t) = last.snap.offsets
       /\ LeafUsed(M, last.t) = RecoveredUsed(Len(last.snap.offsets), last.snap.usedSize)

\* An Open that recovered, without error, an entry closed with
\* numPageEntries full pages as an entry without pages
C6_Witness ==
    /\ last.op = "Open"
    /\ last.recovered
    /\ ~last.snap.restart
    /\ LastOk
    /\ last.snap.usedSize = numPageEntries * pageSize
    /\ Len(last.snap.offsets) = numPageEntries
    /\ tp[last.t].usedSize = 0
    /\ tp[last.t].pages = <<>>

\* C7: restart recovery: after Create, writing data, closing the manager and
\* New on the same path, Open(id) returns an entry with the same number of
\* leaves and byte for byte the same content; New on an existing file keeps the
\* content of the file and recovers the free-list from freeOff instead of
\* starting from an empty file.
C7_RestartKeepsEntries ==
    /\ (last.op = "Restart" /\ last.recovered)
       => /\ Running
          /\ Extends(file, last.file0)
          /\ LeafOffsets(M, freePages) = last.freeOffs0
    /\ (last.op = "Open" /\ last.recovered /\ last.snap.restart)
       => /\ LastOk
          /\ Len(tp[last.t].pages) = Len(last.snap.offsets)
          /\ Content(M, last.t) = last.snap.content

\* A restart of a manager with an entry on disk, after which New returned
\* without error and the file no longer holds what it held
C7_Witness ==
    /\ last.op = "Restart"
    /\ last.recovered
    /\ Running
    /\ ids # {}
    /\ ~Extends(file, last.file0)

\* C8: ReadAt and WriteAt never change the cursor of the entry: for any cursor
\* and any arguments, also for calls that fail and calls that append pages,
\* (cursorPage, cursorOff) after the call are those before it.
C8_AtCallsKeepCursor ==
    last.op \in {"ReadAt", "WriteAt"}
    => /\ handles[last.h].cursorPage = last.cp0
       /\ handles[last.h].cursorOff = last.co0

\* A WriteAt that appended a page while the cursor of the entry was not at
\* the start
C8_Witness ==
    /\ last.op = "WriteAt"
    /\ LastOk
    /\ Len(tp[last.t].pages) > Len(last.pages0)
    /\ <<last.cp0, last.co0>> # <<0, 0>>

\* The position Seek starts from: 0, the cursor, or the end of the last page
SeekBase == IF last.whence = 1 THEN last.cp0 * pageSize + last.co0
            ELSE IF last.whence = 2 THEN Len(last.pages0) * pageSize
            ELSE 0

\* C9: Seek(offset, whence) with base 0 (start), the position of the cursor
\* (current) or leaf_count * pageSize (end), and pos = base + offset >= 0, sets
\* the cursor to (pos div pageSize, pos mod pageSize) when
\* pos < leaf_count * pageSize and to (leaf_count, 0) otherwise, and returns
\* cursorPage * pageSize + cursorOff of the new cursor.
C9_SeekSetsCursor ==
    (last.op = "Seek" /\ SeekBase + last.off >= 0)
    => /\ last.err = ""
       /\ <<handles[last.h].cursorPage, handles[last.h].cursorOff>>
            = IF SeekBase + last.off < Len(last.pages0) * pageSize
              THEN <<(SeekBase + last.off) \div pageSize, (SeekBase + last.off) % pageSize>>
              ELSE <<Len(last.pages0), 0>>
       /\ last.n = handles[last.h].cursorPage * pageSize + handles[last.h].cursorOff

\* A Seek back from the end of an entry with a partly used last page, to a
\* position within a page
C9_Witness ==
    /\ last.op = "Seek"
    /\ last.whence = 2
    /\ last.off < 0
    /\ last.err = ""
    /\ tp[last.t].usedSize % pageSize # 0
    /\ handles[last.h].cursorOff # 0

\* C10: Seek with base + offset < 0 fails with an error and leaves the cursor
\* unchanged, for every whence and every prior cursor.
C10_SeekBeforeStartFails ==
    (last.op = "Seek" /\ SeekBase + last.off < 0)
    => /\ last.err # ""
       /\ handles[last.h].cursorPage = last.cp0
       /\ handles[last.h].cursorOff = last.co0

\* A failed Seek from a cursor that was not at the start
C10_Witness ==
    /\ last.op = "Seek"
    /\ last.whence = 1
    /\ last.err # ""
    /\ <<last.cp0, last.co0>> # <<0, 0>>

\* C11: Read stops when the cursor reaches the position past the last page or
\* the buffer is full; it returns EOF only if no byte was produced and
\* otherwise the number of bytes produced with no error, also when the buffer
\* is larger than the data that remains and the last page is partly used.
C11_ReadReturnsCount ==
    last.op = "Read"
    => /\ panic = ""
       /\ last.err \in {"", "EOF"}
       /\ last.err = "EOF" <=> Len(last.data) = 0
       /\ last.err = "" =>
            /\ last.n = Len(last.data)
            /\ \/ last.n = last.len
               \/ handles[last.h].cursorPage = Len(tp[last.t].pages)

\* A Read with a buffer larger than the entry, from the start of an entry of
\* one byte, that produced the byte and returned EOF
C11_Witness ==
    /\ last.op = "Read"
    /\ last.used0 = 1
    /\ <<last.cp0, last.co0>> = <<0, 0>>
    /\ last.len > 1
    /\ Len(last.data) = 1
    /\ last.err = "EOF"
    /\ last.n = 0

\* The handles returned by Create and Open for id that were not closed
OpenHandles(id) ==
    {h \in 1..Len(handles) : handles[h].open /\ pp[tp[handles[h].ep].pp].fileOff = id}

C13_OpenUnknownFails ==
    (last.op = "Open" /\ last.id \notin ids)
    => /\ panic = ""
       /\ last.err # ""
       /\ DOMAIN entryPages = last.reg0

\* An Open of the offset of the root page of the recycling page that returned
\* an entry without error and registered it
C13_Witness ==
    /\ last.op = "Open"
    /\ last.id = dataOff
    /\ last.id \notin ids
    /\ last.id \notin last.reg0
    /\ LastOk
    /\ last.id \in DOMAIN entryPages

\* An Open of an offset beyond the end of the file that ended the process
C13_WitnessBeyondEnd ==
    /\ last.op = "Open"
    /\ last.id >= Len(last.file0)
    /\ panic = "Sanity Check: ReadAt"

C14_WitnessEmpty ==
    /\ last.op = "Truncate"
    /\ last.size < 0
    /\ last.pages0 = <<>>
    /\ panic = "nil pointer dereference in recursiveTruncate"

\* The offset of the anchor page of tieredPage t
AnchorOff(t) == pp[tp[t].pp].fileOff

\* C15: Create writes the anchor slot 0 = (0, offset of the page of the root)
\* and returns as identifier the offset of the anchor page, which is another
\* page than the page of the root and differs from the identifier of every
\* other entry created on the same manager.
C15_CreateWritesAnchor ==
    (last.op = "Create" /\ LastOk)
    => /\ readEntryPageEntry(M, tp[last.t].pp, 0).err = ""
       /\ readEntryPageEntry(M, tp[last.t].pp, 0).v
            = [usedBytes |-> 0, pageOff |-> pp[pt[tp[last.t].root].pp].fileOff]
       /\ last.id = AnchorOff(last.t)
       /\ AnchorOff(last.t) # pp[pt[tp[last.t].root].pp].fileOff
       /\ \A h \in 1..Len(handles) :
            handles[h].ep # last.t => AnchorOff(handles[h].ep) # last.id

\* A second Create on a manager, after which the anchor slot 0 of the new
\* entry holds the offset of the anchor page itself
C15_Witness ==
    /\ last.op = "Create"
    /\ LastOk
    /\ Len(handles) = 2
    /\ handles[1].ep # handles[2].ep
    /\ readEntryPageEntry(M, tp[last.t].pp, 0).v
         = [usedBytes |-> 0, pageOff |-> AnchorOff(last.t)]
    /\ AnchorOff(last.t) # pp[pt[tp[last.t].root].pp].fileOff

\* The offsets of the pages tieredPage t owns: its anchor page, the pages of
\* its pageTables, the pages in its tree and the pages of tp.pages that are not
\* in its tree
Owned(m, t) ==
    LET leaves == TreeLeaves(m, m.tp[t].root)
        listed == SortedKeys({m.pp[m.tp[t].pages[i]].fileOff : i \in 1..Len(m.tp[t].pages)}
                             \ {m.pp[leaves[i]].fileOff : i \in 1..Len(leaves)})
    IN <<m.pp[m.tp[t].pp].fileOff>> \o NodeOffs(m, m.tp[t].root)
       \o [i \in 1..Len(leaves) |-> m.pp[leaves[i]].fileOff] \o listed

\* The tieredPages of the manager: the recycling page and the registered
\* entry pages
Structures == SortedKeys({freePages} \cup {entryPages[id] : id \in DOMAIN entryPages})

NoDuplicates(s) == \A i, j \in 1..Len(s) : s[i] = s[j] => i = j

\* The pages of the pageTables a goroutine has made and not yet linked
NewTableOffs ==
    LET all == Concat(thr.newPt) IN
    [k \in 1..Len(all) |-> pp[pt[all[k]].pp].fileOff]

\* The manager was used through Create, Write, WriteAt, Read, ReadAt, Seek and
\* Truncate only: every handle is open and is the one Create returned for its
\* entry page
CreatedOnly ==
    \A h \in 1..Len(handles) :
      /\ handles[h].open
      /\ AnchorOff(handles[h].ep) \in ids
      /\ \A g \in 1..Len(handles) : handles[g].ep = handles[h].ep => g = h

\* C16: a page is owned by exactly one structure at a time: in every state no
\* page offset is at once an anchor page, the page of a pageTable or a page of
\* the tree of two structures, or of the tree of an entry and of the recycling
\* page, and no page is handed out by allocatePage while it is still owned.
C16_PagesOwnedOnce ==
    (Running /\ CreatedOnly) =>
      NoDuplicates(Concat([i \in 1..Len(Structures) |-> Owned(M, Structures[i])])
                   \o NewTableOffs)

\* A goroutine's new pageTable lies on the page that managedAllocatePage gave
\* to the entry of another goroutine
C16_Witness ==
    /\ Running
    /\ CreatedOnly
    /\ \E i, j \in Threads :
         /\ i # j
         /\ \E k \in 1..Len(thr.newPt[i]), l \in 1..Len(tp[ThreadEntry(j)].pages) :
              pp[pt[thr.newPt[i][k]].pp].fileOff
                = pp[tp[ThreadEntry(j)].pages[l]].fileOff

RECURSIVE TablesOf(_, _)
\* The pageTables of the tree below and including pageTable t
TablesOf(m, t) ==
    {t} \cup (IF m.pt[t].height = 0 THEN {}
              ELSE UNION {TablesOf(m, m.pt[t].childTables[k]) :
                            k \in DOMAIN m.pt[t].childTables})

\* The indices under which pageTable t holds its children
ChildKeys(m, t) ==
    IF m.pt[t].height = 0 THEN DOMAIN m.pt[t].childPages
    ELSE DOMAIN m.pt[t].childTables

\* C17: no leaf node and no internal node has a gap in its child indices: after
\* every insert, truncate, pop and recovery, the children of every node of
\* every tree are at exactly the indices 0..count-1, whatever the height.
C17_NoIndexGaps ==
    Running =>
      \A i \in 1..Len(Structures) :
        \A t \in TablesOf(M, tp[Structures[i]].root) :
          ChildKeys(M, t) = 0..(Cardinality(ChildKeys(M, t)) - 1)

\* Open has recovered the tree of an entry whose root has children
C17_Witness ==
    /\ Running
    /\ last.op = "Open"
    /\ last.recovered
    /\ last.err = ""
    /\ last.t \in DOMAIN tp
    /\ Cardinality(ChildKeys(M, tp[last.t].root)) > 0
    /\ U64Mod - 1 \in ChildKeys(M, tp[last.t].root)

\* C18: when recycling is enabled and the recycling page holds at least one
\* page, for a recycling tree of any height, allocatePage pops a page from the
\* recycling page, sets its used size to 0 and returns it, and the file does
\* not grow.
C18_AllocateRecycles ==
    (last.op = "Allocate" /\ last.recycle0)
    => /\ panic = ""
       /\ last.err = ""
       /\ Len(file) = Len(last.file0)
       /\ pp[last.n].usedSize = 0
       /\ \E i \in 1..Len(last.freeOffs0) : last.freeOffs0[i] = pp[last.n].fileOff
       /\ tp[freePages].usedSize = last.used0 - pageSize
       /\ \A i \in 1..Len(LeafOffsets(M, freePages)) :
            LeafOffsets(M, freePages)[i] # pp[last.n].fileOff

\* allocatePage was called with a page in a recycling tree of height 0
C18_Witness ==
    /\ last.op = "Allocate"
    /\ last.recycle0
    /\ last.used0 = pageSize
    /\ panic # ""

\* allocatePage has returned a page of a recycling tree of height 1
C18_WitnessRecycled ==
    /\ last.op = "Allocate"
    /\ last.recycle0
    /\ LastOk
    /\ Len(file) = Len(last.file0)
    /\ pt[tp[freePages].root].height > 0

\* The end of a file of n cells rounded up to a page, and not below dataOff
RoundedEnd(n) ==
    LET up == ((n + pageSize - 1) \div pageSize) * pageSize
    IN IF up < dataOff THEN dataOff ELSE up

\* allocatePage did not recycle, and the page it returned is zero-filled and
\* at the rounded end of the file
AllocatedAtEnd ==
    /\ LastOk
    /\ pp[last.n].fileOff = RoundedEnd(Len(last.file0))
    /\ pp[last.n].fileOff >= dataOff
    /\ pp[last.n].usedSize = 0
    /\ Len(file) = pp[last.n].fileOff + pageSize
    /\ \A k \in 1..pageSize : file[pp[last.n].fileOff + k] = 0

\* C19: when allocatePage does not recycle, it returns a zero-filled page at
\* the end of the file rounded up to a multiple of pageSize and never below
\* dataOff; on a freshly created manager the i-th page (i = 0, 1, ...) that
\* managedAllocatePage returns is at i*pageSize + dataOff, and after n
\* allocations the size of the file is n*pageSize + dataOff.
C19_AllocateAtEnd ==
    (last.op = "Allocate" /\ ~last.recycle0)
    => /\ AllocatedAtEnd
       /\ Len(handles) = 0 =>
            /\ pp[last.n].fileOff = (steps - 1) * pageSize + dataOff
            /\ Len(file) = steps * pageSize + dataOff

\* managedAllocatePage was the only call made on a new manager
C19_Witness ==
    /\ last.op = "Allocate"
    /\ ~last.recycle0
    /\ Len(handles) = 0
    /\ steps = 2
    /\ AllocatedAtEnd
    /\ pp[last.n].fileOff = steps * pageSize + dataOff

\* C20: physicalPage.writeAt(buf, o) with 0 <= o < pageSize writes exactly
\* min(len(buf), pageSize - o) bytes at the file offset fileOff + o, returns
\* that count and no error, and sets usedSize to max(usedSize, o + written).
C20_PageWriteAt ==
    (last.op = "writeAt" /\ last.off >= 0 /\ last.off < pageSize)
    => LET p == Len(pp)
           w == Min(Len(last.data), pageSize - last.off)
           base == pp[p].fileOff + last.off
       IN /\ panic = ""
          /\ last.err = ""
          /\ last.n = w
          /\ pp[p].usedSize = Max(last.used0, last.off + w)
          /\ Len(file) = IF w = 0 THEN Len(last.file0) ELSE Max(Len(last.file0), base + w)
          /\ \A k \in 1..Len(file) :
               file[k] = IF k > base /\ k <= base + w THEN last.data[k - base]
                         ELSE IF k <= Len(last.file0) THEN last.file0[k]
                         ELSE 0

\* writeAt was given more than fits behind the offset, on a page that was
\* already used further than the write reaches
C20_Witness ==
    /\ last.op = "writeAt"
    /\ last.off = 0
    /\ Len(last.data) = 1
    /\ last.n = 1
    /\ last.used0 = pageSize
    /\ pp[Len(pp)].usedSize = pageSize

\* writeAt was given more than fits behind the offset
C20_WitnessCut ==
    /\ last.op = "writeAt"
    /\ last.off = pageSize - 1
    /\ Len(last.data) = pageSize + 1
    /\ last.n = 1
    /\ last.err = ""

\* C21: physicalPage.writeAt fails with EOF when o >= pageSize and with an
\* invalid-argument error when o < 0; in both cases it writes nothing and
\* leaves usedSize as it was.
C21_PageWriteAtRange ==
    (last.op = "writeAt" /\ (last.off >= pageSize \/ last.off < 0))
    => /\ panic = ""
       /\ last.off >= pageSize => last.err = "EOF"
       /\ last.off < 0 => last.err = "Cannot write at negative offset"
       /\ last.n = 0
       /\ file = last.file0
       /\ pp[Len(pp)].usedSize = last.used0

\* writeAt was called at a negative offset on a page that holds data
C21_Witness ==
    /\ last.op = "writeAt"
    /\ last.off < 0
    /\ Len(last.data) > 0
    /\ last.used0 > 0
    /\ last.err # ""

\* writeAt was called at the offset pageSize on a page that holds data
C21_WitnessEOF ==
    /\ last.op = "writeAt"
    /\ last.off = pageSize
    /\ Len(last.data) > 0
    /\ last.used0 > 0
    /\ last.err = "EOF"

\* C22: physicalPage.readAt(buf, o) fails with EOF when o >= usedSize, fails
\* with an invalid-argument error when o < 0, and otherwise reads exactly
\* min(len(buf), usedSize - o) bytes from the file offset fileOff + o and
\* reports that count; it never returns bytes at or beyond usedSize.
C22_PageReadAt ==
    last.op = "readAt"
    => LET p == Len(pp)
           base == pp[p].fileOff + last.off
       IN /\ panic = ""
          /\ file = last.file0
          /\ pp[p].usedSize = last.used0
          /\ last.off >= last.used0 => (last.err = "EOF" /\ last.n = 0)
          /\ last.off < 0 =>
               (last.err = "Cannot read at negative offset" /\ last.n = 0)
          /\ (last.off >= 0 /\ last.off < last.used0) =>
               /\ last.err = ""
               /\ last.n = Min(last.len, last.used0 - last.off)
               /\ Len(last.data) = last.n
               /\ last.off + last.n <= last.used0
               /\ \A k \in 1..last.n : last.data[k] = file[base + k]

\* readAt was given a buffer longer than the used part of the page behind the
\* offset, and the page is not full
C22_Witness ==
    /\ last.op = "readAt"
    /\ last.off = 0
    /\ last.used0 = 1
    /\ last.len = pageSize + 1
    /\ last.n = 1
    /\ last.data[1] > 100

\* readAt at an offset at or beyond the used part of a page that holds data
C22_WitnessEOF ==
    /\ last.op = "readAt"
    /\ last.used0 = 1
    /\ last.off = 1
    /\ last.err = "EOF"

\* readAt was called inside the used part of the page that Open made of an
\* Identifier at the end of the file
C22_WitnessBeyondFile ==
    /\ last.op = "readAt"
    /\ last.off = 0
    /\ last.used0 = pageSize
    /\ pp[Len(pp)].fileOff + last.used0 > Len(last.file0)
    /\ panic # ""

\* pages[], used size and tree of tieredPage t, by the offsets of the pages
Structure(m, t) ==
    [pages |-> LeafOffsets(m, t),
     used |-> LeafUsed(m, t),
     usedSize |-> m.tp[t].usedSize,
     height |-> Height(m, t),
     nodes |-> NodeOffs(m, m.tp[t].root),
     leaves |-> [k \in 1..Len(TreeLeaves(m, m.tp[t].root)) |->
                   m.pp[TreeLeaves(m, m.tp[t].root)[k]].fileOff]]

\* The machine after the WriteAt of goroutine i and then that of goroutine j,
\* one after the other, from the state the goroutines started in
SerialWrites(i, j) ==
    LET a == WriteAt(thr.m0, WEntry, PPData(i, thr.w[i].len), thr.w[i].off, 0, 0)
    IN WriteAt(a.m, WEntry, PPData(j, thr.w[j].len), thr.w[j].off, 0, 0).m

WritersDone == \A i \in DOMAIN thr.pc : thr.pc[i] = "done"

\* C23: a writer that appends is serialized with all other writers of the
\* entry: after any interleaving of concurrent WriteAt calls on one entry of
\* which at least one appends, pages[], used size and tree are those of the
\* calls made one after the other in some order.
C23_WritersSerialized ==
    (Running /\ "w" \in DOMAIN thr /\ WritersDone
       /\ \E i \in DOMAIN thr.w : thr.w[i].appending)
    => \E i, j \in DOMAIN thr.w :
         /\ i # j
         /\ SerialWrites(i, j).panic = ""
         /\ Structure(M, WEntry) = Structure(SerialWrites(i, j), WEntry)

\* Both goroutines took the write lock to append at an offset behind the end
\* of the entry; the first added a page and the second wrote into that page
C23_Witness ==
    /\ Running
    /\ "w" \in DOMAIN thr
    /\ WritersDone
    /\ \E i, j \in DOMAIN thr.w :
         /\ i # j
         /\ thr.w[i].appending /\ thr.w[j].appending
         /\ thr.w[i].off > thr.m0.tp[WEntry].usedSize
         /\ thr.w[j].off > thr.m0.tp[WEntry].usedSize
         /\ Len(thr.w[i].added) > 0
         /\ thr.w[j].added = <<>>
         /\ thr.w[i].err = "" /\ thr.w[j].err = ""

\* Goroutine i is between the two steps of allocatePage
InAllocator(i) == thr.pc[i] \in {"seeked", "tableSeeked"}

\* C24: allocatePage and every change of the recycling page run only while
\* PageManager.mu is held, so goroutines that work on different entries are
\* never inside the allocator at the same time.
C24_AllocatorUnderLock ==
    \A i \in Threads :
      InAllocator(i) =>
        /\ thr.mu = i
        /\ \A j \in Threads : InAllocator(j) => j = i

\* Two goroutines are inside allocatePage at once, one of them through
\* newPageTable without the lock
C24_Witness ==
    \E i, j \in Threads :
      /\ i # j
      /\ thr.pc[i] = "tableSeeked"
      /\ thr.pc[j] = "seeked"
      /\ thr.mu = j
      /\ thr.off[i] = thr.off[j]

\* The second handle of an entry, from Open, has called Seek(0, io.SeekEnd)
\* after Create, one Write and Open: the four calls made so far
SeekEndAfterReopen ==
    /\ last.op = "Seek"
    /\ last.whence = 2
    /\ last.off = 0
    /\ last.h = 2
    /\ steps = 4
    /\ Len(handles) = 2
    /\ handles[1].ep = handles[2].ep
    /\ last.t \in DOMAIN wlog
    /\ Len(wlog[last.t].data) > 0

\* C25: the length of an entry as Seek(0, io.SeekEnd) reports it is the length
\* of the data written to it: after n bytes are written to a new entry and it
\* is opened again, Seek(0, io.SeekEnd) returns n.
C25_SeekEndIsLength ==
    SeekEndAfterReopen
    => /\ LastOk
       /\ last.n = Len(wlog[last.t].data)

\* Seek(0, io.SeekEnd) on the reopened entry after a Write of one byte
C25_Witness ==
    /\ SeekEndAfterReopen
    /\ LastOk
    /\ Len(wlog[last.t].data) = 1
    /\ tp[last.t].usedSize = 1
    /\ last.n = pageSize

\* Slot index of the anchor page of tieredPage t, as it is on disk
AnchorSlot(t, index) == readEntryPageEntry(M, tp[t].pp, index).v

RECURSIVE FirstAtHeight(_, _)
\* The pageTable of height h below pageTable n along the children 0, or 0
FirstAtHeight(n, h) ==
    IF n = 0 THEN 0
    ELSE IF pt[n].height = h THEN n
    ELSE IF pt[n].height < h THEN 0
    ELSE FirstAtHeight(MapGet(pt[n].childTables, 0), h)

\* Write has added bytes to its entry: addPages ran to its end
AddPagesCompleted ==
    /\ last.op = "Write"
    /\ LastOk
    /\ tp[last.t].usedSize # last.used0

\* C26: after addPages completes, the anchor slot at the height of the root
\* holds (used size, offset of the root), and if the root changed during an
\* insert, the slot at the height of each old root holds (the bytes a tree of
\* that height can hold, offset of that old root).
C26_AnchorAfterAddPages ==
    AddPagesCompleted
    => LET t == last.t
           root == tp[t].root
       IN /\ AnchorSlot(t, pt[root].height)
               = [usedBytes |-> tp[t].usedSize, pageOff |-> pp[pt[root].pp].fileOff]
          /\ \A h \in pt[last.root0].height..(pt[root].height - 1) :
               /\ FirstAtHeight(root, h) # 0
               /\ h = pt[last.root0].height => FirstAtHeight(root, h) = last.root0
               /\ AnchorSlot(t, h)
                    = [usedBytes |-> maxPages(h) * pageSize,
                       pageOff |-> pp[pt[FirstAtHeight(root, h)].pp].fileOff]

\* A Write made the tree of its entry one level higher
C26_Witness ==
    /\ AddPagesCompleted
    /\ pt[last.root0].height = 0
    /\ pt[tp[last.t].root].height = 1
    /\ tp[last.t].usedSize = numPageEntries * pageSize + 1
    /\ AnchorSlot(last.t, 0)
         = [usedBytes |-> numPageEntries * pageSize, pageOff |-> pp[pt[last.root0].pp].fileOff]

\* What the scan of the anchor slots of tieredPage t finds on disk
Scanned(t) == scanEntries(M, tp[t].pp, 0)

\* The root of tieredPage t as a result of the scan
LiveRoot(t) ==
    [usedSize |-> tp[t].usedSize,
     rootOff |-> pp[pt[tp[t].root].pp].fileOff,
     height |-> pt[tp[t].root].height]

\* C28: the scan of the anchor slots from index 0 upward, which stops at the
\* first slot whose used bytes are less than a tree of its height can hold,
\* selects the slot of the live root and gives its height, its offset and the
\* true used size, for every anchor state that completed operations leave,
\* also when the used size is exactly what the root can hold.
C28_ScanFindsLiveRoot ==
    (Running /\ CreatedOnly)
    => \A h \in 1..Len(handles) :
         /\ Scanned(handles[h].ep).err = ""
         /\ Scanned(handles[h].ep).v = LiveRoot(handles[h].ep)

\* A Write has filled the root of height 0 of its entry exactly, and the scan
\* goes on to slot 1
C28_Witness ==
    /\ Running
    /\ CreatedOnly
    /\ last.op = "Write"
    /\ last.err = ""
    /\ tp[last.t].usedSize = numPageEntries * pageSize
    /\ pt[tp[last.t].root].height = 0
    /\ AnchorSlot(last.t, 0).usedBytes = numPageEntries * pageSize
    /\ Scanned(last.t).v.height = 1
    /\ Scanned(last.t).v.usedSize = 0

RECURSIVE Nodes(_, _)
\* The pageTables reachable from pageTable t through childTables
Nodes(m, t) ==
    {t} \cup UNION {Nodes(m, m.pt[t].childTables[k]) : k \in DOMAIN m.pt[t].childTables}

\* pageTable t holds children of one kind only, and its child tables are one
\* level below it
WellFormedNode(m, t) ==
    /\ DOMAIN m.pt[t].childPages = {} \/ DOMAIN m.pt[t].childTables = {}
    /\ \A k \in DOMAIN m.pt[t].childTables :
         m.pt[m.pt[t].childTables[k]].height = m.pt[t].height - 1

\* C29: in every reachable in-memory tree, whether built by inserts, reshaped
\* by truncate and defrag or rebuilt by recovery, no node holds both child
\* pages and child tables, and every child of an internal node has the height
\* of its parent minus one.
C29_NodesWellFormed ==
    Running =>
      \A i \in 1..Len(Structures) :
        \A t \in Nodes(M, tp[Structures[i]].root) : WellFormedNode(M, t)

\* Open has rebuilt a tree of height 1 whose root has a child table of the
\* root's own height that holds the pages
C29_Witness ==
    /\ Running
    /\ last.op = "Open"
    /\ last.err = ""
    /\ pt[tp[last.t].root].height = 1
    /\ \E k \in DOMAIN pt[tp[last.t].root].childTables :
         LET c == pt[tp[last.t].root].childTables[k]
         IN /\ pt[c].height = 1
            /\ DOMAIN pt[c].childPages # {}

\* The last operation was a Write of at most one page at the end of an entry
\* whose tree was full: it inserts the page with index maxPages(height of the
\* root)
InsertIntoFullTree ==
    /\ newErr = ""
    /\ last.op = "Write"
    /\ last.len \in 1..pageSize
    /\ last.co0 = 0
    /\ last.cp0 = Len(last.pages0)
    /\ last.used0 = Len(last.pages0) * pageSize
    /\ Len(last.pages0) = maxPages(pt[last.root0].height)

\* C30: inserting the page with index MAX_LEAVES(h) into a full tree of height
\* h yields a root of height h+1 that has no parent and no child pages; its
\* child 0 is the old root, whose parent is now the new root, and its only
\* other child table is the one created for the inserted page; all its
\* children have height h and a parent.
C30_InsertExtendsTree ==
    InsertIntoFullTree
    => /\ panic = ""
       /\ last.err = ""
       /\ LET root == tp[last.t].root
              h == pt[last.root0].height
          IN /\ pt[root].height = h + 1
             /\ pt[root].parent = 0
             /\ DOMAIN pt[root].childPages = {}
             /\ DOMAIN pt[root].childTables = {0, 1}
             /\ pt[root].childTables[0] = last.root0
             /\ pt[last.root0].parent = root
             /\ pt[root].childTables[1] # last.root0
             /\ h = 0 => pt[pt[root].childTables[1]].childPages
                            = MapPut(EmptyMap, 0, tp[last.t].pages[Len(tp[last.t].pages)])
             /\ \A k \in DOMAIN pt[root].childTables :
                  /\ pt[pt[root].childTables[k]].height = h
                  /\ pt[pt[root].childTables[k]].parent = root

\* The page with index maxPages(1) was inserted into a full tree of height 1
\* and the process has panicked
C30_Witness ==
    /\ InsertIntoFullTree
    /\ pt[last.root0].height = 1
    /\ panic # ""

\* The page with index maxPages(0) was inserted into a full tree of height 0
\* and the root has height 1
C30_WitnessHeight0 ==
    /\ InsertIntoFullTree
    /\ pt[last.root0].height = 0
    /\ panic = ""
    /\ pt[tp[last.t].root].height = 1

RECURSIVE FileAfter(_, _)
\* The cells of the file f after the writes ws have reached it
FileAfter(f, ws) ==
    IF ws = <<>> THEN f
    ELSE FileAfter(FileWriteAt(f, Head(ws).data, Head(ws).off), Tail(ws))

\* The PageManager of a new process on the file left by a crash after the
\* first k disk writes of the last operation
Crashed(k) ==
    [M EXCEPT !.file = FileAfter(last.file0, SubSeq(last.wr, 1, k)),
              !.entryPages = EmptyMap]

\* The anchor slots of the entry of the last operation after that crash, as
\* the scan of Open reads them
CrashedAnchor(k) ==
    scanEntries([M EXCEPT !.file = FileAfter(last.file0, SubSeq(last.wr, 1, k))],
                tp[last.t].pp, 0)

\* What Open of the entry of the last operation returns after that crash
RecoveredAt(k) == Open(Crashed(k), AnchorOff(last.t))

\* The last operation was a Write that has made its entry longer
Appended ==
    /\ Running
    /\ last.op = "Write"
    /\ last.err = ""
    /\ tp[last.t].usedSize > last.used0

\* Slot i of the anchor of the entry of the last operation after a crash at k
CrashedSlot(k, i) ==
    readEntryPageEntry([M EXCEPT !.file = FileAfter(last.file0, SubSeq(last.wr, 1, k))],
                       tp[last.t].pp, i).v

\* The highest slot of that anchor that is not all zero, -1 if there is none
HighestOccupied(k) ==
    LET occ == {i \in 0..(pageSize \div entryPageEntrySize - 1) :
                  CrashedSlot(k, i) # [usedBytes |-> 0, pageOff |-> 0]}
    IN IF occ = {} THEN -1 ELSE CHOOSE i \in occ : \A j \in occ : j <= i

\* After a crash at k the highest occupied slot names the root of the entry
\* after the operation or the root before it
NamesRoot(k) ==
    /\ HighestOccupied(k) >= 0
    /\ CrashedSlot(k, HighestOccupied(k)).pageOff
         \in {pp[pt[tp[last.t].root].pp].fileOff, pp[pt[last.root0].pp].fileOff}

\* The root that Open rebuilds after a crash at k is the one that the highest
\* occupied slot names
RecoversNamedRoot(k) ==
    LET r == RecoveredAt(k) IN
    /\ r.m.panic = ""
    /\ r.err = ""
    /\ HighestOccupied(k) >= 0
    /\ r.m.pp[r.m.pt[r.m.tp[r.v].root].pp].fileOff
         = CrashedSlot(k, HighestOccupied(k)).pageOff

\* Open after a crash at k rebuilds a well-formed tree: the children of every
\* node are of one kind, one level below it and at the indices 0..count-1
RecoveredWellFormed(k) ==
    LET r == RecoveredAt(k) IN
    /\ r.m.panic = ""
    /\ r.err = ""
    /\ \A t \in Nodes(r.m, r.m.tp[r.v].root) :
         /\ WellFormedNode(r.m, t)
         /\ ChildKeys(r.m, t) = 0..(Cardinality(ChildKeys(r.m, t)) - 1)

\* The positions in the disk writes of the last operation of the writes that
\* start in slot i of the anchor of its entry
SlotWrites(i) ==
    {k \in 1..Len(last.wr) : last.wr[k].off = AnchorOff(last.t) + i * entryPageEntrySize}

\* When the root has changed, the slot of the old root is written before the
\* slot of the new root
OldSlotFirst ==
    tp[last.t].root # last.root0
    => /\ SlotWrites(pt[last.root0].height) # {}
       /\ SlotWrites(pt[tp[last.t].root].height) # {}
       /\ \A a \in SlotWrites(pt[last.root0].height),
             b \in SlotWrites(pt[tp[last.t].root].height) : a < b

\* C27: at every point of an append, that is after a crash behind any prefix
\* of its disk writes, the highest occupied anchor slot names the current root
\* or the older root, and recovery from that disk state rebuilds a well-formed
\* tree; the slot of the old root is written as full before the slot of the
\* new root is written.
C27_AppendCrashSafe ==
    Appended
    => /\ OldSlotFirst
       /\ \A k \in 0..Len(last.wr) :
            /\ NamesRoot(k)
            /\ RecoveredWellFormed(k)

\* An append has grown the root of an entry made by Create; after a crash
\* between the write of the old root's slot and the write of the new root's
\* slot the highest occupied slot names the old root, and Open rebuilds an
\* entry without data from another page
C27_Witness ==
    /\ Appended
    /\ CreatedOnly
    /\ last.used0 > 0
    /\ tp[last.t].root # last.root0
    /\ OldSlotFirst
    /\ \E k \in 1..(Len(last.wr) - 1) :
         /\ k \in SlotWrites(pt[last.root0].height)
         /\ NamesRoot(k)
         /\ CrashedSlot(k, HighestOccupied(k)).pageOff = pp[pt[last.root0].pp].fileOff
         /\ ~RecoversNamedRoot(k)
         /\ RecoveredAt(k).m.panic = ""
         /\ RecoveredAt(k).err = ""
         /\ RecoveredAt(k).m.tp[RecoveredAt(k).v].usedSize = 0

\* tieredPage.page: the page with the given index, found by the walk from the
\* root; v is the physicalPage
page(m, t, index) ==
    Bind(walkToLeaf(m, m.tp[t].root, index), LAMBDA w :
      IF Failed(w) THEN w
      ELSE IF (index % numPageEntries) \notin DOMAIN m.pt[w.v].childPages
      THEN Ret(m, 0, "page at index doesn't exist")
      ELSE Ret(m, m.pt[w.v].childPages[index % numPageEntries], ""))

RECURSIVE SumSeq(_)
\* The sum of the numbers of the sequence s
SumSeq(s) == IF s = <<>> THEN 0 ELSE Head(s) + SumSeq(Tail(s))

\* pages[] and used size of tieredPage t agree with its tree
InLockstep(t) ==
    /\ \A i \in 1..Len(tp[t].pages) :
         /\ page(M, t, i - 1).err = ""
         /\ page(M, t, i - 1).v = tp[t].pages[i]
    /\ TreeLeaves(M, tp[t].root) = tp[t].pages
    /\ Len(tp[t].pages) = PagesFor(tp[t].usedSize)
    /\ tp[t].usedSize = SumSeq(LeafUsed(M, t))

\* C31: used_size and pages[] are kept in lockstep with the tree: after every
\* completed operation pages[] is the sequence of the leaf pages of the tree
\* from left to right (pages[i] is the page the walk for index i reaches), its
\* length is ceil(used_size / pageSize), and used_size is the sum of the used
\* sizes of the leaves.
C31_PagesInLockstep ==
    Running => \A i \in 1..Len(Structures) : InLockstep(Structures[i])

\* Truncate to 0 of an entry of one cell has removed the page and left a
\* negative used size
C31_Witness ==
    /\ Running
    /\ CreatedOnly
    /\ last.op = "Truncate"
    /\ last.err = ""
    /\ last.size = 0
    /\ last.used0 = 1
    /\ tp[last.t].pages = <<>>
    /\ TreeLeaves(M, tp[last.t].root) = <<>>
    /\ tp[last.t].usedSize = 1 - pageSize

\* Open has recovered an entry of one page, and the walk for index 0 does not
\* find the page
C31_WitnessRecovered ==
    /\ Running
    /\ last.op = "Open"
    /\ last.recovered
    /\ last.err = ""
    /\ Len(tp[last.t].pages) = 1
    /\ page(M, last.t, 0).err # ""

\* The last operation was a Truncate to a size that is not negative, and it
\* has returned without an error
Truncated ==
    /\ Running
    /\ last.op = "Truncate"
    /\ last.err = ""
    /\ last.size >= 0

\* The offsets of the pages that the recycling page holds
FreeOffsets == {pp[tp[freePages].pages[i]].fileOff : i \in 1..Len(tp[freePages].pages)}

RECURSIVE PromotedOver(_, _)
\* The pageTables from n down to the root of tieredPage t along child 0, the
\* root excluded: the roots that defrag has left behind
PromotedOver(n, t) ==
    IF n = tp[t].root \/ pt[n].height = 0 \/ 0 \notin DOMAIN pt[n].childTables THEN {}
    ELSE {n} \cup PromotedOver(pt[n].childTables[0], t)

\* C32: after Truncate has returned, defrag has promoted sole children until
\* the root has height 0 or does not have exactly one child; each promotion
\* has zeroed the slot of the old root and released its page, the slot at the
\* height of the final root is (used_size, offset of the root), and truncating
\* to 0 leaves only an empty root, used_size 0 and no pages.
C32_TruncateDefrags ==
    Truncated
    => LET t == last.t
           root == tp[t].root
       IN /\ pt[root].height = 0 \/ MapLen(pt[root].childTables) # 1
          /\ AnchorSlot(t, pt[root].height)
               = [usedBytes |-> tp[t].usedSize, pageOff |-> pp[pt[root].pp].fileOff]
          /\ \A h \in (pt[root].height + 1)..pt[last.root0].height :
               AnchorSlot(t, h) = [usedBytes |-> 0, pageOff |-> 0]
          /\ pt[root].height < pt[last.root0].height
               => pp[pt[last.root0].pp].fileOff \in FreeOffsets
          /\ last.size = 0
               => /\ MapLen(pt[root].childPages) = 0
                  /\ MapLen(pt[root].childTables) = 0
                  /\ tp[t].usedSize = 0
                  /\ tp[t].pages = <<>>

\* Truncate to 0 of an entry of one cell has left used_size at 1 - pageSize
C32_Witness ==
    /\ Truncated
    /\ CreatedOnly
    /\ last.size = 0
    /\ last.used0 = 1
    /\ pt[tp[last.t].root].height = 0
    /\ MapLen(pt[tp[last.t].root].childPages) = 0
    /\ tp[last.t].usedSize = 1 - pageSize
    /\ AnchorSlot(last.t, 0).usedBytes # 0

\* Truncate has emptied the second child of a root of height 1 and defrag has
\* promoted the first child
C32_WitnessPromoted ==
    /\ Truncated
    /\ CreatedOnly
    /\ last.size > 0
    /\ pt[last.root0].height = 1
    /\ pt[tp[last.t].root].height = 0
    /\ tp[last.t].root = pt[last.root0].childTables[0]
    /\ pp[pt[last.root0].pp].fileOff \in FreeOffsets
    /\ AnchorSlot(last.t, 1) = [usedBytes |-> 0, pageOff |-> 0]

\* The positions in the disk writes of the last operation of the writes into
\* the page at file offset off
WritesInto(off) ==
    {k \in 1..Len(last.wr) : last.wr[k].off >= off /\ last.wr[k].off < off + pageSize}

\* The writes of the last operation to the tree of its entry: to the page of
\* the root it started with (the walk) and to the anchor (defrag)
EntryWrites == WritesInto(pp[pt[last.root0].pp].fileOff) \cup WritesInto(AnchorOff(last.t))

\* The writes of the last operation to the anchor of the recycling page: every
\* addPages ends with one
RecyclingWrites == WritesInto(pp[tp[freePages].pp].fileOff)

\* C33: during Truncate the pages released by the walk and by defrag are only
\* collected; they are handed to the recycling page in one batch after defrag
\* is complete, and the recycling page is not changed while the walk over the
\* tree of the entry is in progress.
C33_ReleaseAfterDefrag ==
    (Truncated /\ CreatedOnly)
    => /\ Cardinality(RecyclingWrites) <= 1
       /\ \A f \in RecyclingWrites, e \in EntryWrites : e < f

\* Truncate has removed the second page of an entry of two pages: addPages has
\* written the anchor of the recycling page before defrag has written the
\* anchor of the entry
C33_Witness ==
    /\ Truncated
    /\ CreatedOnly
    /\ Len(last.pages0) = 2
    /\ Len(tp[last.t].pages) = 1
    /\ \E f \in RecyclingWrites, e \in WritesInto(AnchorOff(last.t)) : f < e

\* C34: addPages and freePage set recyclePages to false for their duration and
\* restore the value it had when they were entered; so in every interleaving
\* of goroutines allocatePage takes no page from the recycling page while
\* another goroutine is inside addPages or freePage.
C34_RecyclingFlagGuards ==
    \A i \in Threads :
      /\ thr.kept[i]
      /\ thr.pc[i] = "popped" => Mutating(i) = {}

\* A goroutine has taken a page from the recycling page while another one was
\* inside addPages, which it entered after the first had read recyclePages
C34_Witness ==
    \E i \in Threads :
      /\ thr.pc[i] = "popped"
      /\ thr.page[i] # 0
      /\ panic = ""
      /\ \E j \in Mutating(i) : thr.pc[j] = "adding"

\* A goroutine has entered freePage while recyclePages was false and has left
\* it with recyclePages true
C34_WitnessRestore ==
    \E i \in Threads :
      /\ thr.pc[i] = "idle"
      /\ thr.n[i] > 0
      /\ ~thr.kept[i]
      /\ recyclePages
      /\ Mutating(i) # {}

(***************************************************************************)
(* C35: the pages of the recycling page                                    *)
(***************************************************************************)
\* The last operation was a managedAllocatePage that took its page from the
\* recycling page
Popped ==
    /\ last.op = "Allocate"
    /\ last.recycle0
    /\ last.err = ""

\* C35: after any sequence of addPages and freePage calls, every page held by
\* the recycling page has usedSize = pageSize, the pages of its tree are the
\* pages of rp.pages, its usedSize is pageSize times their number and len()
\* is their number.
C35_RecyclingPagesFull ==
    (Running /\ freePages # 0) =>
        LET rp == tp[freePages] IN
        /\ \A i \in 1..Len(rp.pages) : pp[rp.pages[i]].usedSize = pageSize
        /\ TreeLeaves(M, rp.root) = rp.pages
        /\ rp.usedSize = pageSize * Len(rp.pages)
        /\ tp_len(M, freePages) = Len(rp.pages)

\* freePage has taken a page out of a recycling page that addPages had filled,
\* and pages remain
C35_Witness ==
    /\ Running
    /\ Popped
    /\ Len(tp[freePages].pages) = last.free0 - 1
    /\ Len(tp[freePages].pages) > 0

\* addPages has added pages to the recycling page, one of which was not full
\* in the entry that released it
C35_WitnessAdded ==
    /\ Running
    /\ last.op = "Truncate"
    /\ Len(tp[freePages].pages) > last.free0
    /\ \E i \in 1..Len(last.pages0) :
         /\ \E j \in 1..Len(tp[freePages].pages) : tp[freePages].pages[j] = last.pages0[i]
         /\ last.used0 < i * pageSize

(***************************************************************************)
(* C36: freePage                                                           *)
(***************************************************************************)
\* The pageTables of the recycling page before the pop whose page the
\* recycling page no longer holds afterwards, neither as a pageTable nor as a
\* free page
LostPages ==
    LET held == Owned(M, freePages) IN
    {i \in 1..Len(last.nodes0) :
        \A j \in 1..Len(held) : held[j] # last.nodes0[i]}

\* C36: freePage on a non-empty recycling page returns and removes the tail
\* of rp.pages and decreases usedSize by pageSize; the pages of the pageTables
\* that became empty are kept for the following pops, so that no freed page is
\* lost.
C36_PopReturnsTail ==
    (last.op = "Allocate" /\ last.recycle0) =>
        /\ panic = ""
        /\ last.err = ""
        /\ pp[last.n].fileOff = Last(last.freeOffs0)
        /\ LeafOffsets(M, freePages) = Front(last.freeOffs0)
        /\ tp[freePages].usedSize = last.used0 - pageSize
        /\ LostPages = {}

\* freePage has returned the tail of rp.pages, the only page of its pageTable,
\* and the page of that pageTable is held nowhere
C36_Witness ==
    /\ Running
    /\ Popped
    /\ pp[last.n].fileOff = Last(last.freeOffs0)
    /\ LeafOffsets(M, freePages) = Front(last.freeOffs0)
    /\ LostPages # {}

\* freePage was called on a recycling page whose tree has height 0
C36_WitnessHeight0 ==
    /\ last.op = "Allocate"
    /\ last.recycle0
    /\ Len(last.nodes0) = 1
    /\ panic # ""

(***************************************************************************)
(* C39: the root of a tiered page                                          *)
(***************************************************************************)
\* C39: the root of every tiered page has no parent, also after defrag has
\* made a child the root, and the root check of extendPageTableTree never
\* fails.
C39_RootHasNoParent ==
    /\ Running => \A i \in 1..Len(Structures) : pt[tp[Structures[i]].root].parent = 0
    /\ panic # "Sanity check failed. Pt is not the root node"

\* defrag has made the only child of the root the root, and the new root
\* still names the old root as its parent
C39_Witness ==
    /\ Running
    /\ CreatedOnly
    /\ last.op = "Truncate"
    /\ last.size > 0
    /\ last.err = ""
    /\ tp[last.t].root # last.root0
    /\ pt[tp[last.t].root].parent = last.root0

\* A write that had to extend the tree of an entry after defrag has ended the
\* process in the root check of extendPageTableTree
C39_WitnessExtend ==
    /\ last.op = "Write"
    /\ pt[last.root0].parent # 0
    /\ panic = "Sanity check failed. Pt is not the root node"

(***************************************************************************)
(* C40: the bytes an entry returns                                         *)
(***************************************************************************)
\* The bytes Write and WriteAt have written to the entry of the last
\* operation: Write writes Data(1, len), WriteAt writes Data(2, len)
WrittenBytes == {100 * stamp + i : stamp \in {1, 2}, i \in 1..pageSize}

\* The last operation was a Read or ReadAt that returned bytes
ReadBytes ==
    /\ panic = ""
    /\ last.op \in {"Read", "ReadAt"}
    /\ Len(last.data) > 0

\* C40: the bytes Read and ReadAt return were written to that entry before;
\* a page taken from the recycling page shows nothing of the structure that
\* owned it before.
C40_ReadsOwnBytes ==
    ReadBytes => \A i \in 1..Len(last.data) : last.data[i] \in WrittenBytes

\* A read of the second entry has returned bytes the first entry wrote
C40_Witness ==
    /\ ReadBytes
    /\ last.err = ""
    /\ \E i \in 1..Len(last.data), j \in 1..Len(OwnerData) : last.data[i] = OwnerData[j]

(***************************************************************************)
(* C37: WriteAt and Truncate at the same time                              *)
(***************************************************************************)
\* C37: for any interleaving of a WriteAt and a Truncate on one entry, after
\* both have returned every leaf except the last is full, usedSize is the sum
\* of the used sizes of the leaves, the number of leaves is
\* ceil(usedSize / pageSize), and no leaf is an empty page that a writer with a
\* cursor from before the truncation added.
C37_WriteTruncateConsistent ==
    (Running /\ WritersDone) =>
        LET used == LeafUsed(M, WEntry) IN
        /\ \A i \in 1..(Len(used) - 1) : used[i] = pageSize
        /\ tp[WEntry].usedSize = SumSeq(used)
        /\ Len(used) = PagesFor(tp[WEntry].usedSize)
        /\ \A i \in 1..Len(used) : used[i] # 0

\* Truncate ran while the writer waited for the write lock with a cursor
\* behind the new end of the entry; the writer has added two pages, the first
\* of which is empty, and both calls have returned without error
C37_Witness ==
    /\ Running
    /\ WritersDone
    /\ thr.w[1].err = ""
    /\ thr.w[2].err = ""
    /\ Len(thr.w[1].added) = 2
    /\ pp[thr.w[1].added[1]].usedSize = 0
    /\ thr.w[1].off > thr.w[2].size

(***************************************************************************)
(* C38: every call returns                                                 *)
(***************************************************************************)
\* Every goroutine has returned from its call, and the lock of the entry and
\* the mutex of the manager are free
AllReturned ==
    /\ WritersDone
    /\ thr.mu = 0
    /\ thr.rd = {}
    /\ ~ManagerLocked

\* C38: under fair scheduling every call of the goroutines eventually
\* returns, with the lock of the entry and the mutex of the manager released.
C38_CallsReturn == <>AllReturned

\* Every call returns or the process ends in a panic: no goroutine waits
\* forever for the lock of the entry or the mutex of the manager
ReturnsOrPanics == <>(AllReturned \/ panic # "")

\* Truncate has ended the process in a panic while the writer, which had
\* changed from the read lock to the write lock, has not returned
C38_Witness ==
    /\ panic # ""
    /\ thr.pc[2] = "done"
    /\ thr.pc[1] = "relock"

\* The calls of all goroutines have returned after the writer has changed
\* from the read lock to the write lock
C38_WitnessReturned ==
    /\ Running
    /\ AllReturned
    /\ thr.w[1].appending
    /\ thr.w[1].err = ""
    /\ thr.w[2].err = ""

====
